---- MODULE Spec2Model ----
(***************************************************************************)
(* Option screener: option-level filtering, strategy generators, the       *)
(* strategy range filter and the strategy factory.                         *)
(*                                                                         *)
(* The option universe is ONE vector owned by the caller.  StrategyFactory *)
(* and every StrategyGenerator hold a reference to it, and OptionFilter    *)
(* (built by each generator over const_cast<vector&>(options_)) assigns    *)
(* the filtered vector back through that reference.  The variable          *)
(* `universe` is that vector.                                              *)
(***************************************************************************)
EXTENDS Integers, Sequences, FiniteSets, TLC

VARIABLES
    universe,   \* the caller's std::vector<Option>, referenced by the factory
    original,   \* history: the universe as it was when the factory was built
    spot,       \* spot_ of the factory and of its generators
    sortTies,   \* how this build's std::sort orders records of equal strike
    op,         \* last operation: "none", "apply", "gen", "generate"
    kindArg,    \* the generator kind of the last "gen" call
    sfArg,      \* the StrategyFilter of the last "generate" call
    cfgArg,     \* the ConfigFilter of the last call
    before,     \* history: the universe as it was when the last call began
    outcome,    \* "none", "ok", or "threw" (std::bad_optional_access)
    result,     \* what the last call returned (records or strategies)
    pc,         \* fan-out: position of each concurrently running generator
    seen,       \* fan-out: the `filtered` local of OptionFilter::filter
    opts,       \* fan-out: the `opts` local of generate
    out         \* fan-out: the candidates each generator returned

vars == <<universe, original, spot, sortTies, op, kindArg, sfArg, cfgArg,
          before, outcome, result, pc, seen, opts, out>>

-----------------------------------------------------------------------------
(* std::optional<T>: the empty sequence is std::nullopt, <<v>> holds v.     *)

None == <<>>

Some(v) == <<v>>

Has(o) == o # <<>>

Val(o) == o[1]

-----------------------------------------------------------------------------
(* double values.  Money, strikes and greeks are integers of the model;    *)
(* quotients (volume_ratio, rr, avg_iv) are exact fractions n/d with d > 0;*)
(* +inf, -inf and NaN are kept apart and compare as IEEE-754 doubles do.   *)

Fin(n) == [k |-> "fin", n |-> n, d |-> 1]

Rat(n, d) == [k |-> "fin", n |-> n, d |-> d]

PInf == [k |-> "pinf", n |-> 0, d |-> 1]

NInf == [k |-> "ninf", n |-> 0, d |-> 1]

NaN == [k |-> "nan", n |-> 0, d |-> 1]

IsNaN(a) == a.k = "nan"

\* a < b on doubles: false as soon as one side is NaN
Lt(a, b) ==
    /\ ~IsNaN(a)
    /\ ~IsNaN(b)
    /\ CASE a.k = "pinf" -> FALSE
         [] b.k = "ninf" -> FALSE
         [] a.k = "ninf" -> TRUE
         [] b.k = "pinf" -> TRUE
         [] OTHER -> a.n * b.d < b.n * a.d

Gt(a, b) == Lt(b, a)

\* a <= b on doubles
Le(a, b) == ~IsNaN(a) /\ ~IsNaN(b) /\ ~Lt(b, a)

Ge(a, b) == Le(b, a)

\* a - b
Sub(a, b) ==
    CASE IsNaN(a) \/ IsNaN(b) -> NaN
      [] a.k = "fin" /\ b.k = "fin" -> Rat(a.n * b.d - b.n * a.d, a.d * b.d)
      [] a.k = b.k -> NaN
      [] a.k = "fin" -> IF b.k = "pinf" THEN NInf ELSE PInf
      [] OTHER -> a

\* a / b for b > 0 (the only divisions of the program have a positive divisor)
Div(a, b) ==
    CASE IsNaN(a) \/ IsNaN(b) -> NaN
      [] a.k = "fin" /\ b.k = "fin" -> Rat(a.n * b.d, a.d * b.n)
      [] a.k = "fin" -> Fin(0)
      [] b.k = "fin" -> a
      [] OTHER -> NaN

-----------------------------------------------------------------------------
(* Option (object.hpp).  expiry is a date token; tokens of one format order*)
(* as the integers YYYYMMDD do, which is what std::map<std::string,...>    *)
(* iterates by.                                                            *)

Opt(e, s, sd, m, i, v, o, dl, th, vg, dte, b, a) ==
    [expiry |-> e, strike |-> s, side |-> sd, mid |-> m, iv |-> i,
     volume |-> v, oi |-> o, delta |-> dl, theta |-> th, vega |-> vg,
     days_to_expiry |-> dte, bid |-> b, ask |-> a]

is_call(o) == o.side = "CALL"

is_put(o) == o.side = "PUT"

is_otm(o, s) == (is_call(o) /\ o.strike > s) \/ (is_put(o) /\ o.strike < s)

price(o) == IF o.mid > 0 THEN o.mid ELSE 0

Abs(x) == IF x < 0 THEN -x ELSE x

bid_ask_spread(o) ==
    IF Has(o.bid) /\ Has(o.ask) THEN Some(Abs(Val(o.ask) - Val(o.bid))) ELSE None

\* mutant: the ratio of a record without open interest taken over 1
volume_ratio_unguarded(o) ==
    Some(Rat(o.volume, IF o.oi > 0 THEN o.oi ELSE 1))

volume_ratio(o) == IF o.oi > 0 THEN Some(Rat(o.volume, o.oi)) ELSE None

-----------------------------------------------------------------------------
(* ConfigFilter and StrategyFilter (object.hpp).                           *)

NoCfg ==
    [min_volume |-> None, min_oi |-> None, min_price |-> None, expiry |-> None,
     days_to_expiry_range |-> None, volume_ratio_range |-> None,
     max_bid_ask_spread |-> None,
     direction |-> None, debit_range |-> None, credit_range |-> None,
     potential_gain_range |-> None, potential_loss_range |-> None,
     rr_range |-> None, net_delta_range |-> None, net_theta_range |-> None,
     net_vega_range |-> None, iv_range |-> None]

NoSf ==
    [single_calls |-> FALSE, iron_condors |-> FALSE, straddles |-> FALSE,
     strangles |-> FALSE]

-----------------------------------------------------------------------------
(* OptionFilter (option_filter.hpp).                                       *)

\* the predicates apply_filter passes to filter, in the order it applies them
FilterSteps ==
    <<"min_volume", "min_oi", "min_price", "expiry", "days_to_expiry_range",
      "volume_ratio_range", "max_bid_ask_spread">>

\* has_value() of the config field behind one step
StepSet(cfg, step) == Has(cfg[step])

\* the lambda apply_filter hands to filter for one step
StepCond(cfg, step, o) ==
    CASE step = "min_volume" -> o.volume >= Val(cfg.min_volume)
      [] step = "min_oi" -> o.oi >= Val(cfg.min_oi)
      [] step = "min_price" -> price(o) >= Val(cfg.min_price)
      [] step = "expiry" -> o.expiry = Val(cfg.expiry)
      [] step = "days_to_expiry_range" ->
            /\ o.days_to_expiry >= Val(cfg.days_to_expiry_range)[1]
            /\ o.days_to_expiry <= Val(cfg.days_to_expiry_range)[2]
      [] step = "volume_ratio_range" ->
            /\ Has(volume_ratio(o))
            /\ Ge(Val(volume_ratio(o)), Fin(Val(cfg.volume_ratio_range)[1]))
            /\ Le(Val(volume_ratio(o)), Fin(Val(cfg.volume_ratio_range)[2]))
      [] step = "max_bid_ask_spread" ->
            /\ Has(bid_ask_spread(o))
            /\ Val(bid_ask_spread(o)) <= Val(cfg.max_bid_ask_spread)

\* mutant: records erased in place while iterating, so that the record after
\* each dropped one is kept unexamined
RECURSIVE filter_erase_skip(_, _, _)
filter_erase_skip(u, cfg, step) ==
    IF u = <<>> THEN <<>>
    ELSE IF StepCond(cfg, step, Head(u))
         THEN <<Head(u)>> \o filter_erase_skip(Tail(u), cfg, step)
         ELSE IF Tail(u) = <<>> THEN <<>>
              ELSE <<Head(Tail(u))>> \o filter_erase_skip(Tail(Tail(u)), cfg, step)

\* the loop of OptionFilter::filter: the records of u that satisfy cond, in order
RECURSIVE filter(_, _, _)
filter(u, cfg, step) ==
    IF u = <<>> THEN <<>>
    ELSE (IF StepCond(cfg, step, Head(u)) THEN <<Head(u)>> ELSE <<>>)
         \o filter(Tail(u), cfg, step)

\* apply_filter from step i on: what universe_ holds when it returns
RECURSIVE apply_from(_, _, _)
apply_from(u, cfg, i) ==
    IF i > Len(FilterSteps) THEN u
    ELSE apply_from(IF StepSet(cfg, FilterSteps[i])
                    THEN filter(u, cfg, FilterSteps[i]) ELSE u,
                    cfg, i + 1)

apply_filter(u, cfg) == apply_from(u, cfg, 1)

-----------------------------------------------------------------------------
(* Strategy and its four variants (strategy_class.hpp).  A strategy value  *)
(* is its kind, its legs in the order legs() returns them, the action of a *)
(* SingleLeg ("NA" for the other kinds) and its direction.                 *)

SingleLeg(opt, action, direction) ==
    [kind |-> "SingleLeg", legs |-> <<opt>>, action |-> action,
     direction |-> direction]

IronCondor(sc, bc, sp, bp, direction) ==
    [kind |-> "IronCondor", legs |-> <<sc, bc, sp, bp>>, action |-> "NA",
     direction |-> direction]

Straddle(call, put, direction) ==
    [kind |-> "Straddle", legs |-> <<call, put>>, action |-> "NA",
     direction |-> direction]

Strangle(call, put, direction) ==
    [kind |-> "Strangle", legs |-> <<call, put>>, action |-> "NA",
     direction |-> direction]

\* sc_, bc_, sp_, bp_ of an IronCondor; call_, put_ of a Straddle or Strangle
short_call(s) == s.legs[1]

long_call(s) == s.legs[2]

short_put(s) == s.legs[3]

long_put(s) == s.legs[4]

call_leg(s) == s.legs[1]

put_leg(s) == s.legs[2]

leg_sign(s, leg) ==
    CASE s.kind = "SingleLeg" -> s.action
      [] s.kind = "IronCondor" ->
            IF \/ (leg.expiry = short_call(s).expiry
                   /\ leg.strike = short_call(s).strike /\ is_call(leg))
               \/ (leg.expiry = short_put(s).expiry
                   /\ leg.strike = short_put(s).strike /\ is_put(leg))
            THEN "SELL" ELSE "BUY"
      [] OTHER -> IF s.direction = "LONG" THEN "BUY" ELSE "SELL"

debit(s) ==
    CASE s.kind = "SingleLeg" ->
            IF s.action = "BUY" THEN Fin(price(s.legs[1]) * 100) ELSE Fin(0)
      [] s.kind = "IronCondor" ->
            Fin((price(long_call(s)) + price(long_put(s))) * 100)
      [] OTHER ->
            IF s.direction = "LONG"
            THEN Fin((price(call_leg(s)) + price(put_leg(s))) * 100)
            ELSE Fin(0)

credit(s) ==
    CASE s.kind = "SingleLeg" ->
            IF s.action = "SELL" THEN Fin(price(s.legs[1]) * 100) ELSE Fin(0)
      [] s.kind = "IronCondor" ->
            Fin((price(short_call(s)) + price(short_put(s))) * 100)
      [] OTHER ->
            IF s.direction = "SHORT"
            THEN Fin((price(call_leg(s)) + price(put_leg(s))) * 100)
            ELSE Fin(0)

cost(s) == Sub(debit(s), credit(s))

width(s) == Fin((long_call(s).strike - short_call(s).strike) * 100)

max_gain(s) ==
    CASE s.kind = "SingleLeg" ->
            IF is_call(s.legs[1]) THEN PInf
            ELSE Sub(Fin(s.legs[1].strike * 100), cost(s))
      [] s.kind = "IronCondor" -> credit(s)
      [] OTHER -> IF s.direction = "LONG" THEN PInf ELSE credit(s)

\* mutant: the loss of a short straddle or strangle taken as its cost
max_loss_cost(s) ==
    CASE s.kind = "SingleLeg" -> cost(s)
      [] s.kind = "IronCondor" -> Sub(width(s), credit(s))
      [] OTHER -> cost(s)

max_loss(s) ==
    CASE s.kind = "SingleLeg" -> cost(s)
      [] s.kind = "IronCondor" -> Sub(width(s), credit(s))
      [] OTHER -> IF s.direction = "LONG" THEN cost(s) ELSE PInf

rr(s) == IF Gt(max_loss(s), Fin(0)) THEN Div(max_gain(s), max_loss(s)) ELSE PInf

\* quantity of leg i: +1 when leg_sign marks it BUY, else -1
qty(s, i) == IF leg_sign(s, s.legs[i]) = "BUY" THEN 1 ELSE -1

RECURSIVE SumTo(_, _)
SumTo(f, n) == IF n = 0 THEN 0 ELSE f[n] + SumTo(f, n - 1)

net_delta(s) ==
    Fin(SumTo([i \in 1..Len(s.legs) |-> s.legs[i].delta * 100 * qty(s, i)],
              Len(s.legs)))

net_theta(s) ==
    Fin(SumTo([i \in 1..Len(s.legs) |-> s.legs[i].theta * 100 * qty(s, i)],
              Len(s.legs)))

net_vega(s) ==
    Fin(SumTo([i \in 1..Len(s.legs) |-> s.legs[i].vega * 100 * qty(s, i)],
              Len(s.legs)))

\* the legs whose iv is > 0
PositiveIvLegs(s) == SelectSeq(s.legs, LAMBDA leg : leg.iv > 0)

\* mutant: the mean taken over all legs, zero when none has a positive IV
avg_iv_all(s) ==
    <<[k |-> "fin",
       n |-> SumTo([i \in 1..Len(s.legs) |->
                      IF s.legs[i].iv > 0 THEN s.legs[i].iv ELSE 0], Len(s.legs)),
       d |-> Len(s.legs)]>>

avg_iv(s) ==
    IF PositiveIvLegs(s) = <<>> THEN None
    ELSE Some(Rat(SumTo([i \in 1..Len(PositiveIvLegs(s)) |->
                            PositiveIvLegs(s)[i].iv],
                        Len(PositiveIvLegs(s))),
                  Len(PositiveIvLegs(s))))

-----------------------------------------------------------------------------
(* Strategy generators (generator_class.hpp).                              *)

direction_to_string(cfg) == Val(cfg.direction)

\* push_back of every element of every sequence of ss, in order
RECURSIVE Flatten(_)
Flatten(ss) == IF ss = <<>> THEN <<>> ELSE Head(ss) \o Flatten(Tail(ss))

\* one insertion of std::sort's comparator order a.strike < b.strike; records
\* of equal strike stay in input order ("stable") or end up reversed
\* ("reversed"): the standard leaves their order to the implementation
RECURSIVE InsertByStrike(_, _, _)
InsertByStrike(x, sorted, ties) ==
    IF sorted = <<>> THEN <<x>>
    ELSE IF \/ x.strike < Head(sorted).strike
            \/ (ties = "reversed" /\ x.strike = Head(sorted).strike)
         THEN <<x>> \o sorted
         ELSE <<Head(sorted)>> \o InsertByStrike(x, Tail(sorted), ties)

RECURSIVE SortFrom(_, _, _)
SortFrom(s, acc, ties) ==
    IF s = <<>> THEN acc
    ELSE SortFrom(Tail(s), InsertByStrike(Head(s), acc, ties), ties)

\* std::sort(begin, end, by strike)
SortByStrike(s, ties) == SortFrom(s, <<>>, ties)

\* mutant: the expiries visited in the order they first appear in the input
RECURSIVE ExpiryKeys_firstseen(_)
ExpiryKeys_firstseen(os) ==
    IF os = <<>> THEN <<>>
    ELSE LET rest == ExpiryKeys_firstseen(SelectSeq(Tail(os),
                        LAMBDA o : o.expiry # Head(os).expiry))
         IN <<Head(os).expiry>> \o rest

\* the keys of expiry_map in the order std::map iterates them (ascending)
RECURSIVE AscendingSeq(_)
AscendingSeq(S) ==
    IF S = {} THEN <<>>
    ELSE LET m == CHOOSE x \in S : \A y \in S : x <= y
         IN <<m>> \o AscendingSeq(S \ {m})

ExpiryKeys(os) == AscendingSeq({os[i].expiry : i \in 1..Len(os)})

\* mutant: the universe taken as one chain, whatever the expiry
Chain_ungrouped(os, e) == os

\* expiry_map[e]: the records of one expiry, in the order they were pushed
Chain(os, e) == SelectSeq(os, LAMBDA o : o.expiry = e)

Calls(chain) == SelectSeq(chain, is_call)

Puts(chain) == SelectSeq(chain, is_put)

\* mutant: calls at the spot taken as well
SingleCallsOf_atm(os, s, cfg) ==
    LET filtered_opts == SelectSeq(os, LAMBDA o : o.side = "CALL" /\ o.strike >= s)
        direction_str == Val(cfg.direction)
        action == IF direction_str = "SHORT" THEN "SELL" ELSE "BUY"
    IN [i \in 1..Len(filtered_opts) |->
            [kind |-> "SingleLeg", legs |-> <<filtered_opts[i]>>,
             action |-> action, direction |-> direction_str]]

\* SingleCallsGenerator::generate after the option filter
SingleCallsOf(os, s, cfg) ==
    LET filtered_opts == SelectSeq(os, LAMBDA o : is_call(o) /\ is_otm(o, s))
        direction_str == direction_to_string(cfg)
        action == IF direction_str = "SHORT" THEN "SELL" ELSE "BUY"
    IN [i \in 1..Len(filtered_opts) |->
            SingleLeg(filtered_opts[i], action, direction_str)]

\* mutant: short legs taken at or beyond the spot instead of strictly beyond
IronCondorsOfChain_atm(chain, s, direction_str, ties) ==
    LET calls == SortByStrike(SelectSeq(chain, LAMBDA o : o.side = "CALL"), ties)
        puts == SortByStrike(SelectSeq(chain, LAMBDA o : o.side = "PUT"), ties)
        short_calls == SelectSeq(calls, LAMBDA c : c.strike >= s)
        short_puts == SelectSeq(puts, LAMBDA q : q.strike <= s)
        buy_calls(sc) == SelectSeq(calls, LAMBDA c : c.strike > sc.strike)
        buy_puts(sp) == SelectSeq(puts, LAMBDA q : q.strike < sp.strike)
    IN Flatten([i \in 1..Len(short_calls) |->
         Flatten([j \in 1..Len(buy_calls(short_calls[i])) |->
           Flatten([k \in 1..Len(short_puts) |->
             [l \in 1..Len(buy_puts(short_puts[k])) |->
                IronCondor(short_calls[i], buy_calls(short_calls[i])[j],
                           short_puts[k], buy_puts(short_puts[k])[l],
                           direction_str)]])])])

\* mutant: long calls taken at or above the short call's strike
IronCondorsOfChain_ge(chain, s, direction_str, ties) ==
    LET calls == SortByStrike(SelectSeq(chain, LAMBDA o : o.side = "CALL"), ties)
        puts == SortByStrike(SelectSeq(chain, LAMBDA o : o.side = "PUT"), ties)
        short_calls == SelectSeq(calls, LAMBDA c : c.strike > s)
        short_puts == SelectSeq(puts, LAMBDA q : q.strike < s)
        buy_calls(sc) == SelectSeq(calls, LAMBDA c : c.strike >= sc.strike)
        buy_puts(sp) == SelectSeq(puts, LAMBDA q : q.strike < sp.strike)
    IN Flatten([i \in 1..Len(short_calls) |->
         Flatten([j \in 1..Len(buy_calls(short_calls[i])) |->
           Flatten([k \in 1..Len(short_puts) |->
             [l \in 1..Len(buy_puts(short_puts[k])) |->
                IronCondor(short_calls[i], buy_calls(short_calls[i])[j],
                           short_puts[k], buy_puts(short_puts[k])[l],
                           direction_str)]])])])

\* the iron condors of one expiry chain
IronCondorsOfChain(chain, s, direction_str, ties) ==
    LET calls == SortByStrike(Calls(chain), ties)
        puts == SortByStrike(Puts(chain), ties)
        short_calls == SelectSeq(calls, LAMBDA c : c.strike > s)
        short_puts == SelectSeq(puts, LAMBDA q : q.strike < s)
        buy_calls(sc) == SelectSeq(calls, LAMBDA c : c.strike > sc.strike)
        buy_puts(sp) == SelectSeq(puts, LAMBDA q : q.strike < sp.strike)
    IN Flatten([i \in 1..Len(short_calls) |->
         Flatten([j \in 1..Len(buy_calls(short_calls[i])) |->
           Flatten([k \in 1..Len(short_puts) |->
             [l \in 1..Len(buy_puts(short_puts[k])) |->
                IronCondor(short_calls[i], buy_calls(short_calls[i])[j],
                           short_puts[k], buy_puts(short_puts[k])[l],
                           direction_str)]])])])

\* IronCondorsGenerator::generate after the option filter
IronCondorsOf(os, s, cfg, ties) ==
    LET keys == ExpiryKeys(os)
    IN Flatten([n \in 1..Len(keys) |->
            IronCondorsOfChain(Chain(os, keys[n]), s,
                               direction_to_string(cfg), ties)])

\* mutant: the search for a put stops at the first one of the call's strike
StraddlesOfChain_first(chain, direction_str, ties) ==
    LET calls == SortByStrike(SelectSeq(chain, LAMBDA o : o.side = "CALL"), ties)
        puts == SortByStrike(SelectSeq(chain, LAMBDA o : o.side = "PUT"), ties)
        matches(c) == SelectSeq(puts, LAMBDA q : q.strike = c.strike)
    IN Flatten([i \in 1..Len(calls) |->
            IF matches(calls[i]) = <<>> THEN <<>>
            ELSE <<Straddle(calls[i], matches(calls[i])[1], direction_str)>>])

\* the straddles of one expiry chain
StraddlesOfChain(chain, direction_str, ties) ==
    LET calls == SortByStrike(Calls(chain), ties)
        puts == SortByStrike(Puts(chain), ties)
    IN Flatten([i \in 1..Len(calls) |->
         Flatten([j \in 1..Len(puts) |->
            IF calls[i].strike = puts[j].strike
            THEN <<Straddle(calls[i], puts[j], direction_str)>>
            ELSE <<>>])])

\* StraddlesGenerator::generate after the option filter
StraddlesOf(os, cfg, ties) ==
    LET keys == ExpiryKeys(os)
    IN Flatten([n \in 1..Len(keys) |->
            StraddlesOfChain(Chain(os, keys[n]), direction_to_string(cfg), ties)])

\* mutant: the i-th call paired with the i-th put only
StranglesOfChain_adjacent(chain, s, direction_str, ties) ==
    LET calls == SortByStrike(
                    SelectSeq(chain, LAMBDA o : o.side = "CALL" /\ o.strike > s), ties)
        puts == SortByStrike(
                    SelectSeq(chain, LAMBDA o : o.side = "PUT" /\ o.strike < s), ties)
    IN Flatten([i \in 1..Len(calls) |->
            IF i <= Len(puts)
            THEN <<[kind |-> "Strangle", legs |-> <<calls[i], puts[i]>>,
                    action |-> "NA", direction |-> direction_str]>>
            ELSE <<>>])

\* the strangles of one expiry chain
StranglesOfChain(chain, s, direction_str, ties) ==
    LET calls == SortByStrike(
                    SelectSeq(chain, LAMBDA o : is_call(o) /\ o.strike > s), ties)
        puts == SortByStrike(
                    SelectSeq(chain, LAMBDA o : is_put(o) /\ o.strike < s), ties)
    IN Flatten([i \in 1..Len(calls) |->
            [j \in 1..Len(puts) |-> Strangle(calls[i], puts[j], direction_str)]])

\* StranglesGenerator::generate after the option filter
StranglesOf(os, s, cfg, ties) ==
    LET keys == ExpiryKeys(os)
    IN Flatten([n \in 1..Len(keys) |->
            StranglesOfChain(Chain(os, keys[n]), s,
                             direction_to_string(cfg), ties)])

\* mutant: straddles handled before iron condors
Kinds_reordered == <<"single_calls", "straddles", "iron_condors", "strangles">>

\* the kinds in the order StrategyFactory::generate handles them
Kinds == <<"single_calls", "iron_condors", "straddles", "strangles">>

\* the candidates generators_[kind] builds from its filtered options
CandidatesOf(kind, os, s, cfg, ties) ==
    CASE kind = "single_calls" -> SingleCallsOf(os, s, cfg)
      [] kind = "iron_condors" -> IronCondorsOf(os, s, cfg, ties)
      [] kind = "straddles" -> StraddlesOf(os, cfg, ties)
      [] kind = "strangles" -> StranglesOf(os, s, cfg, ties)

\* mutant: an absent direction read as LONG
GeneratorRun_default(kind, u, s, cfg, ties) ==
    LET os == apply_filter(u, cfg)
        c == IF cfg.direction = <<>> THEN [cfg EXCEPT !.direction = <<"LONG">>] ELSE cfg
    IN [threw |-> FALSE, universe |-> os,
        strategies |-> CandidatesOf(kind, os, s, c, ties)]

\* mutant: the candidates built over the universe as it was before filtering
GeneratorRun_unfiltered(kind, u, s, cfg, ties) ==
    LET os == apply_filter(u, cfg)
    IN IF Has(cfg.direction)
       THEN [threw |-> FALSE, universe |-> os,
             strategies |-> CandidatesOf(kind, u, s, cfg, ties)]
       ELSE [threw |-> TRUE, universe |-> os, strategies |-> <<>>]

\* generators_[kind]->generate(cfg) on a universe u.  OptionFilter writes the
\* filtered vector into u before cfg.direction.value() is evaluated, so the
\* universe is narrowed also when the call throws std::bad_optional_access.
GeneratorRun(kind, u, s, cfg, ties) ==
    LET os == apply_filter(u, cfg)
    IN IF Has(cfg.direction)
       THEN [threw |-> FALSE, universe |-> os,
             strategies |-> CandidatesOf(kind, os, s, cfg, ties)]
       ELSE [threw |-> TRUE, universe |-> os, strategies |-> <<>>]

-----------------------------------------------------------------------------
(* StrategyFactory (factory.hpp).  A range is an optional pair <<lo, hi>>  *)
(* of doubles.                                                             *)

\* mutant: the two bounds joined by "or"
check_range_either(value, range) ==
    IF ~Has(range) THEN TRUE
    ELSE IF IsNaN(value) THEN FALSE
    ELSE Ge(value, Val(range)[1]) \/ Le(value, Val(range)[2])

\* mutant: both bounds exclusive
check_range_strict(value, range) ==
    IF range = <<>> THEN TRUE
    ELSE IF value.k = "nan" THEN FALSE
    ELSE Gt(value, range[1][1]) /\ Lt(value, range[1][2])

\* mutant: +infinity let through whatever the high bound
check_range_infpass(value, range) ==
    IF range = <<>> THEN TRUE
    ELSE IF value.k = "nan" THEN FALSE
    ELSE Ge(value, range[1][1]) /\ (Le(value, range[1][2]) \/ value.k = "pinf")

check_range(value, range) ==
    IF ~Has(range) THEN TRUE
    ELSE IF IsNaN(value) THEN FALSE
    ELSE Ge(value, Val(range)[1]) /\ Le(value, Val(range)[2])

\* mutant: debit_range and credit_range tested whatever the debit and credit
passes_noexempt(st, c_filter) ==
    /\ check_range(debit(st), c_filter.debit_range)
    /\ check_range(credit(st), c_filter.credit_range)
    /\ check_range(max_gain(st), c_filter.potential_gain_range)
    /\ check_range(max_loss(st), c_filter.potential_loss_range)
    /\ check_range(rr(st), c_filter.rr_range)
    /\ check_range(net_delta(st), c_filter.net_delta_range)
    /\ check_range(net_theta(st), c_filter.net_theta_range)
    /\ check_range(net_vega(st), c_filter.net_vega_range)
    /\ (avg_iv(st) = <<>> \/ check_range(avg_iv(st)[1], c_filter.iv_range))

\* the body of filter_strategies' loop: TRUE when the strategy is pushed back
passes(st, c_filter) ==
    /\ ~(/\ Has(c_filter.debit_range)
         /\ Gt(debit(st), Fin(0))
         /\ ~check_range(debit(st), c_filter.debit_range))
    /\ ~(/\ Has(c_filter.credit_range)
         /\ Gt(credit(st), Fin(0))
         /\ ~check_range(credit(st), c_filter.credit_range))
    /\ ~(\/ ~check_range(max_gain(st), c_filter.potential_gain_range)
         \/ ~check_range(max_loss(st), c_filter.potential_loss_range)
         \/ ~check_range(rr(st), c_filter.rr_range)
         \/ ~check_range(net_delta(st), c_filter.net_delta_range)
         \/ ~check_range(net_theta(st), c_filter.net_theta_range)
         \/ ~check_range(net_vega(st), c_filter.net_vega_range))
    /\ ~(/\ Has(avg_iv(st))
         /\ ~check_range(Val(avg_iv(st)), c_filter.iv_range))

filter_strategies(strategies, c_filter) ==
    SelectSeq(strategies, LAMBDA st : passes(st, c_filter))

enabled(s_filter, kind) == s_filter[kind]

\* mutant: each generator filtering a copy of the universe
generate_from_copy(i, acc, u, s, s_filter, c_filter, ties) ==
    LET run(k) == GeneratorRun(Kinds[k], u, s, c_filter, ties)
        on == {k \in i..Len(Kinds) : s_filter[Kinds[k]]}
    IN IF \E k \in on : run(k).threw
       THEN [threw |-> TRUE, universe |-> u, strategies |-> <<>>]
       ELSE [threw |-> FALSE, universe |-> u,
             strategies |->
                acc \o Flatten([k \in 1..(Len(Kinds) - i + 1) |->
                          IF s_filter[Kinds[i + k - 1]]
                          THEN filter_strategies(run(i + k - 1).strategies, c_filter)
                          ELSE <<>>])]

\* StrategyFactory::generate from kind i on, with all_strategies = acc and the
\* shared universe = u: the four `if (s_filter.kind)` blocks in their order.
\* A throwing generator ends the call: nothing is returned.
RECURSIVE generate_from(_, _, _, _, _, _, _)
generate_from(i, acc, u, s, s_filter, c_filter, ties) ==
    IF i > Len(Kinds) THEN [threw |-> FALSE, universe |-> u, strategies |-> acc]
    ELSE IF ~enabled(s_filter, Kinds[i])
         THEN generate_from(i + 1, acc, u, s, s_filter, c_filter, ties)
         ELSE LET g == GeneratorRun(Kinds[i], u, s, c_filter, ties)
              IN IF g.threw
                 THEN [threw |-> TRUE, universe |-> g.universe,
                       strategies |-> <<>>]
                 ELSE generate_from(
                          i + 1,
                          acc \o filter_strategies(g.strategies, c_filter),
                          g.universe, s, s_filter, c_filter, ties)

generate(u, s, s_filter, c_filter, ties) ==
    generate_from(1, <<>>, u, s, s_filter, c_filter, ties)

-----------------------------------------------------------------------------
(* StrategyList (factory.hpp): rank and top return new lists of clones.    *)

\* the leg the loop `for leg : legs` of clone_strategy leaves in `call` (in
\* `put`): the last leg of that side.  Every Straddle and Strangle a generator
\* builds has one of each.
LastLeg(s, sd) ==
    s.legs[CHOOSE i \in 1..Len(s.legs) :
              /\ s.legs[i].side = sd
              /\ \A j \in (i + 1)..Len(s.legs) : s.legs[j].side # sd]

\* the null pointer clone_strategy returns for a strategy of no known kind
nullptr == [kind |-> "nullptr", legs |-> <<>>, action |-> "NA", direction |-> "NA"]

\* mutant: the call legs of an IronCondor handed over in the wrong roles
clone_strategy_swapped(s) ==
    CASE s.kind = "SingleLeg" ->
            SingleLeg(s.legs[1], leg_sign(s, s.legs[1]), s.direction)
      [] s.kind = "IronCondor" ->
            IronCondor(s.legs[2], s.legs[1], s.legs[3], s.legs[4], s.direction)
      [] s.kind = "Straddle" ->
            Straddle(LastLeg(s, "CALL"), LastLeg(s, "PUT"), s.direction)
      [] s.kind = "Strangle" ->
            Strangle(LastLeg(s, "CALL"), LastLeg(s, "PUT"), s.direction)
      [] OTHER -> nullptr

clone_strategy(s) ==
    CASE s.kind = "SingleLeg" ->
            SingleLeg(s.legs[1], leg_sign(s, s.legs[1]), s.direction)
      [] s.kind = "IronCondor" ->
            IronCondor(s.legs[1], s.legs[2], s.legs[3], s.legs[4], s.direction)
      [] s.kind = "Straddle" ->
            Straddle(LastLeg(s, "CALL"), LastLeg(s, "PUT"), s.direction)
      [] s.kind = "Strangle" ->
            Strangle(LastLeg(s, "CALL"), LastLeg(s, "PUT"), s.direction)
      [] OTHER -> nullptr

clone(strategies) == [i \in 1..Len(strategies) |-> clone_strategy(strategies[i])]

RankKeys == {"rr", "gain", "loss", "cost"}

\* mutant: "loss" made to follow reverse like the other keys
RankLess_lossreverse(key, reverse, a, b) ==
    LET v(s) == CASE key = "rr" -> rr(s)
                  [] key = "gain" -> max_gain(s)
                  [] key = "loss" -> max_loss(s)
                  [] key = "cost" -> cost(s)
    IN IF reverse THEN Gt(v(a), v(b)) ELSE Lt(v(a), v(b))

\* the comparator rank hands to std::sort for a key; "loss" ignores reverse
RankLess(key, reverse, a, b) ==
    CASE key = "rr" -> IF reverse THEN Gt(rr(a), rr(b)) ELSE Lt(rr(a), rr(b))
      [] key = "gain" ->
            IF reverse THEN Gt(max_gain(a), max_gain(b))
            ELSE Lt(max_gain(a), max_gain(b))
      [] key = "loss" -> Lt(max_loss(a), max_loss(b))
      [] key = "cost" ->
            IF reverse THEN Gt(cost(a), cost(b)) ELSE Lt(cost(a), cost(b))

\* one insertion in comparator order; elements the comparator does not
\* separate stay in input order ("stable") or end up reversed ("reversed"):
\* std::sort leaves their order to the implementation
RECURSIVE InsertRanked(_, _, _, _, _)
InsertRanked(x, sorted, key, reverse, ties) ==
    IF sorted = <<>> THEN <<x>>
    ELSE IF \/ RankLess(key, reverse, x, Head(sorted))
            \/ (ties = "reversed" /\ ~RankLess(key, reverse, Head(sorted), x))
         THEN <<x>> \o sorted
         ELSE <<Head(sorted)>> \o InsertRanked(x, Tail(sorted), key, reverse, ties)

RECURSIVE SortRankedFrom(_, _, _, _, _)
SortRankedFrom(s, acc, key, reverse, ties) ==
    IF s = <<>> THEN acc
    ELSE SortRankedFrom(Tail(s), InsertRanked(Head(s), acc, key, reverse, ties),
                        key, reverse, ties)

\* mutant: the list returned as cloned, unsorted
rank_unsorted(strategies, key, reverse, ties) ==
    [i \in 1..Len(strategies) |-> clone_strategy(strategies[i])]

\* mutant: a key rank does not know handled as "rr"
rank_defaultkey(strategies, key, reverse, ties) ==
    IF strategies = <<>> THEN <<>>
    ELSE SortRankedFrom([i \in 1..Len(strategies) |-> clone_strategy(strategies[i])],
                        <<>>,
                        IF key \in {"rr", "gain", "loss", "cost"} THEN key ELSE "rr",
                        reverse, ties)

\* StrategyList::rank(key, reverse)
rank(strategies, key, reverse, ties) ==
    IF strategies = <<>> THEN <<>>
    ELSE IF key \in RankKeys
         THEN SortRankedFrom(clone(strategies), <<>>, key, reverse, ties)
         ELSE clone(strategies)

\* mutant: the last n elements instead of the first
top_last(strategies, n) ==
    LET k == IF n < Len(strategies) THEN n ELSE Len(strategies)
    IN [i \in 1..k |-> clone_strategy(strategies[Len(strategies) - k + i])]

\* StrategyList::top(n)
top(strategies, n) ==
    LET k == IF n < Len(strategies) THEN n ELSE Len(strategies)
    IN [i \in 1..k |-> clone_strategy(strategies[i])]

\* mutant: the receiver's own vector sorted and handed out
RankRun_inplace(strategies, key, reverse, ties) ==
    [strategies_ |-> rank(strategies, key, reverse, ties),
     returned |-> rank(strategies, key, reverse, ties)]

\* a rank call on a list whose strategies_ is `strategies`: what strategies_
\* holds afterwards (rank sorts the vector clone() built, never strategies_)
\* and what the returned list holds
RankRun(strategies, key, reverse, ties) ==
    [strategies_ |-> strategies,
     returned |-> rank(strategies, key, reverse, ties)]

\* a top call likewise: the elements are read through clone_strategy
TopRun(strategies, n) ==
    [strategies_ |-> strategies, returned |-> top(strategies, n)]

-----------------------------------------------------------------------------
(* Inputs.                                                                 *)

\* every sequence over S of length at most n
SeqsUpTo(S, n) == UNION {[1..m -> S] : m \in 0..n}

ExpiryA == 20250117

ExpiryB == 20250221

\* the contracts the generators are run on, as a snapshot lists them: one
\* chain with an at-the-money call and put, strikes on both sides of them and
\* one strike listed twice, and one put of a second expiry
GenCatalog ==
    << Opt(ExpiryA, 110, "CALL", 3, 4, 10, 10, 3, -1, 2, 30, Some(2), Some(4)),
       Opt(ExpiryA, 90, "PUT", 2, 0, 10, 10, -3, -1, 2, 30, Some(1), Some(3)),
       Opt(ExpiryA, 100, "CALL", 5, 2, 20, 10, 5, -2, 3, 30, Some(4), Some(6)),
       Opt(ExpiryA, 100, "PUT", 4, 2, 20, 10, -5, -2, 3, 30, Some(3), Some(5)),
       Opt(ExpiryB, 100, "PUT", 6, 3, 10, 10, -4, -1, 2, 65, Some(5), Some(7)),
       Opt(ExpiryA, 120, "CALL", 1, 0, 5, 0, 1, -1, 1, 30, Some(1), Some(1)),
       Opt(ExpiryA, 110, "CALL", 0, 0, 0, 5, 2, -1, 1, 30, None, None),
       Opt(ExpiryA, 80, "PUT", 0, 5, 5, 10, -1, -1, 1, 30, None, Some(2)) >>

MaxUniverse == 5

AnyOrderLen == 3

\* s never decreases, or never increases
Monotone(s) ==
    \/ \A i \in 1..(Len(s) - 1) : s[i] <= s[i + 1]
    \/ \A i \in 1..(Len(s) - 1) : s[i] >= s[i + 1]

\* universes of up to MaxUniverse contracts, repeats allowed: in every order
\* up to AnyOrderLen contracts, in listing order or its reverse beyond
Universes ==
    {[i \in 1..Len(ix) |-> GenCatalog[ix[i]]] :
        ix \in {s \in SeqsUpTo(1..Len(GenCatalog), MaxUniverse) :
                    Len(s) <= AnyOrderLen \/ Monotone(s)}}

Spots == {100, 105}

TieOrders == {"stable", "reversed"}

WithDirection(cfg, d) == [cfg EXCEPT !.direction = Some(d)]

\* configurations of the generator calls: both directions, no direction, and
\* option-level price floors
GenCfgs ==
    { WithDirection(NoCfg, "LONG"),
      [WithDirection(NoCfg, "SHORT") EXCEPT !.min_price = Some(0)],
      [WithDirection(NoCfg, "LONG") EXCEPT !.min_price = Some(2)],
      NoCfg }

KindSet == {Kinds[i] : i \in 1..Len(Kinds)}

\* Scenario B: calls at strikes 100 and 110, puts at strikes 100 and 90, one
\* expiry
ScenarioBUniverse == <<GenCatalog[3], GenCatalog[1], GenCatalog[4], GenCatalog[2]>>

\* the same shape one strike off the spot: calls 110 and 120, puts 90 and 80
CondorChain == <<GenCatalog[1], GenCatalog[6], GenCatalog[2], GenCatalog[8]>>

\* the four-leg chain followed by the call and the put at strike 100: every
\* kind has candidates at spot 100
FullChain == CondorChain \o <<GenCatalog[3], GenCatalog[4]>>

MaxFactoryUniverse == 2

\* universes a factory is built over: up to MaxFactoryUniverse of the first
\* four listed contracts in any order, and the two four-leg chains
FactoryUniverses ==
    SeqsUpTo({GenCatalog[i] : i \in 1..4}, MaxFactoryUniverse)
        \cup {ScenarioBUniverse, CondorChain}

\* configurations of the factory calls: with and without direction, with
\* different option-level predicates
FactoryCfgs ==
    { WithDirection(NoCfg, "LONG"),
      [WithDirection(NoCfg, "SHORT") EXCEPT !.min_price = Some(4)],
      [WithDirection(NoCfg, "LONG") EXCEPT !.min_volume = Some(20)],
      [NoCfg EXCEPT !.min_price = Some(4)] }

Sf(sc, ic, sd, sg) ==
    [single_calls |-> sc, iron_condors |-> ic, straddles |-> sd, strangles |-> sg]

FactorySfs ==
    { NoSf, Sf(FALSE, TRUE, FALSE, FALSE), Sf(FALSE, FALSE, TRUE, FALSE),
      Sf(TRUE, TRUE, TRUE, TRUE) }

AllSfs == {Sf(a, b, c, d) : a \in BOOLEAN, b \in BOOLEAN, c \in BOOLEAN, d \in BOOLEAN}

MaxRangeUniverse == 2

\* universes of the range-filter runs: contracts with and without a price and
\* an implied volatility, and the four-leg chain
RangeUniverses ==
    SeqsUpTo({GenCatalog[i] : i \in {1, 2, 3, 4, 7}}, MaxRangeUniverse)
        \cup {CondorChain, FullChain}

OptionRangeFields == {"days_to_expiry_range", "volume_ratio_range"}

StrategyRangeFields ==
    {"debit_range", "credit_range", "potential_gain_range",
     "potential_loss_range", "rr_range", "net_delta_range", "net_theta_range",
     "net_vega_range", "iv_range"}

\* ranges whose low bound lies above their high bound
InvertedRanges == {<<Fin(500), Fin(-500)>>, <<PInf, Fin(0)>>, <<Fin(1), Fin(0)>>}

\* configurations with a direction and one inverted range
InvertedCfgs ==
    {[WithDirection(NoCfg, d) EXCEPT ![f] = Some(r)] :
        d \in {"LONG", "SHORT"}, f \in StrategyRangeFields, r \in InvertedRanges}
    \cup {[WithDirection(NoCfg, d) EXCEPT ![f] = Some(<<30, 0>>)] :
        d \in {"LONG", "SHORT"}, f \in OptionRangeFields}

\* configurations with a direction and one range that some candidates of the
\* four-leg chain meet and others miss
PlainRangeCfgs ==
    { [WithDirection(NoCfg, "LONG") EXCEPT !.debit_range = Some(<<Fin(100), Fin(300)>>)],
      [WithDirection(NoCfg, "SHORT") EXCEPT !.credit_range = Some(<<Fin(300), Fin(500)>>)],
      [WithDirection(NoCfg, "LONG") EXCEPT !.net_delta_range = Some(<<Fin(0), Fin(300)>>)],
      [WithDirection(NoCfg, "SHORT") EXCEPT !.rr_range = Some(<<Fin(0), Fin(2)>>)] }

\* configurations with a direction and a risk/reward range: a finite high
\* bound, and a positive low bound
RrRangeCfgs ==
    { [WithDirection(NoCfg, "LONG") EXCEPT !.rr_range = Some(<<Fin(0), Fin(2)>>)],
      [WithDirection(NoCfg, "LONG") EXCEPT !.rr_range = Some(<<Fin(2), PInf>>)],
      [WithDirection(NoCfg, "SHORT") EXCEPT !.rr_range = Some(<<Fin(2), PInf>>)] }

\* configurations with a direction and one option-level floor that part of
\* the six-record chain misses
FloorCfgs ==
    { [WithDirection(NoCfg, "LONG") EXCEPT !.min_volume = Some(10)],
      [WithDirection(NoCfg, "SHORT") EXCEPT !.min_price = Some(2)] }

RangeCfgs == InvertedCfgs \cup PlainRangeCfgs \cup RrRangeCfgs \cup FloorCfgs

\* configurations of the direct generator and OptionFilter calls
DirectCfgs ==
    { WithDirection(NoCfg, "LONG"),
      [WithDirection(NoCfg, "SHORT") EXCEPT !.min_price = Some(4)] }

\* records for the option filter: zero open interest with volume, a negative
\* mid, a missing bid or ask, ask below bid, a negative days-to-expiry
FilterCatalog ==
    { Opt(ExpiryA, 100, "CALL", 5, 2, 20, 10, 5, -2, 3, 30, Some(4), Some(6)),
      Opt(ExpiryA, 100, "PUT", 4, 2, 2, 0, -5, -2, 3, 30, None, None),
      Opt(ExpiryB, 110, "CALL", -1, 0, 0, 5, 3, -1, 2, 65, Some(6), Some(3)),
      Opt(ExpiryA, 90, "PUT", 1, 3, 10, 10, -3, -1, 2, 30, Some(1), None),
      Opt(ExpiryB, 120, "CALL", 2, 3, 30, 10, 1, -1, 1, -1, Some(2), Some(2)) }

MaxFilterUniverse == 3

FilterUniverses == SeqsUpTo(FilterCatalog, MaxFilterUniverse)

\* option-level configurations: each predicate alone at a value some record
\* meets exactly, inverted ranges, and conjunctions of several predicates
OptionCfgs ==
    { NoCfg,
      [NoCfg EXCEPT !.min_volume = Some(10)],
      [NoCfg EXCEPT !.min_oi = Some(10)],
      [NoCfg EXCEPT !.min_price = Some(0)],
      [NoCfg EXCEPT !.min_price = Some(2)],
      [NoCfg EXCEPT !.expiry = Some(ExpiryA)],
      [NoCfg EXCEPT !.days_to_expiry_range = Some(<<0, 30>>)],
      [NoCfg EXCEPT !.days_to_expiry_range = Some(<<30, 0>>)],
      [NoCfg EXCEPT !.volume_ratio_range = Some(<<0, 2>>)],
      [NoCfg EXCEPT !.volume_ratio_range = Some(<<1, 3>>)],
      [NoCfg EXCEPT !.volume_ratio_range = Some(<<3, 1>>)],
      [NoCfg EXCEPT !.max_bid_ask_spread = Some(2)],
      [NoCfg EXCEPT !.min_volume = Some(10), !.max_bid_ask_spread = Some(3)],
      [NoCfg EXCEPT !.min_price = Some(1), !.volume_ratio_range = Some(<<0, 2>>)],
      [NoCfg EXCEPT !.expiry = Some(ExpiryB), !.min_oi = Some(1),
                    !.days_to_expiry_range = Some(<<-1, 65>>)],
      [NoCfg EXCEPT !.min_volume = Some(20), !.min_oi = Some(1),
                    !.min_price = Some(2), !.volume_ratio_range = Some(<<2, 3>>),
                    !.max_bid_ask_spread = Some(2)] }

\* candidates handed to the range filter: a bought and a sold call, the iron
\* condor of the four-leg chain (rr = 1), an iron condor of credit 400 over a
\* width of 600 (rr = 2), the straddle at strike 100 and a strangle without
\* implied volatility in both directions, and a bought call without price
StrategyCatalog ==
    { SingleLeg(GenCatalog[1], "BUY", "LONG"),
      SingleLeg(GenCatalog[1], "SELL", "SHORT"),
      IronCondor(GenCatalog[1], GenCatalog[6], GenCatalog[2], GenCatalog[8], "LONG"),
      IronCondor(GenCatalog[1],
                 Opt(ExpiryA, 116, "CALL", 0, 0, 5, 5, 1, -1, 1, 30, None, None),
                 Opt(ExpiryA, 95, "PUT", 1, 3, 5, 5, -4, -1, 2, 30, Some(1), Some(1)),
                 GenCatalog[2], "SHORT"),
      Straddle(GenCatalog[3], GenCatalog[4], "LONG"),
      Straddle(GenCatalog[3], GenCatalog[4], "SHORT"),
      Strangle(GenCatalog[6], GenCatalog[2], "LONG"),
      Strangle(GenCatalog[6], GenCatalog[2], "SHORT"),
      SingleLeg(GenCatalog[7], "BUY", "LONG") }

MaxCandidates == 2

CandidateLists == SeqsUpTo(StrategyCatalog, MaxCandidates)

\* range bounds: values some candidate's metric equals, and +infinity
RangeBounds == {Fin(-100), Fin(0), Fin(2), Fin(300), Fin(500), PInf}

\* configurations of the range filter: one range on one field, and two
\* conjunctions of ranges
StratCfgs ==
    {[NoCfg EXCEPT ![f] = Some(<<lo, hi>>)] :
        f \in StrategyRangeFields, lo \in RangeBounds, hi \in RangeBounds}
    \cup { [NoCfg EXCEPT !.debit_range = Some(<<Fin(500), PInf>>),
                         !.rr_range = Some(<<Fin(0), Fin(2)>>)],
           [NoCfg EXCEPT !.credit_range = Some(<<Fin(500), PInf>>),
                         !.iv_range = Some(<<Fin(2), Fin(2)>>),
                         !.potential_loss_range = Some(<<Fin(300), PInf>>)] }

\* doubles handed to check_range, and the ranges they are tested against
CheckValues ==
    {NInf, Fin(-1), Fin(0), Rat(199, 100), Fin(2), Fin(3), Fin(5), Rat(501, 100),
     PInf, NaN}

CheckBounds == {NInf, Fin(0), Fin(2), Fin(5), PInf, NaN}

CheckRanges == {None} \cup {Some(<<lo, hi>>) : lo \in CheckBounds, hi \in CheckBounds}

\* strategies of the lists that are ranked: a bought call and a bought
\* strangle that agree on every key, a sold call with the same rr and gain,
\* two iron condors and a sold straddle
RankCatalog ==
    { SingleLeg(GenCatalog[1], "BUY", "LONG"),
      Strangle(GenCatalog[6], GenCatalog[2], "LONG"),
      SingleLeg(GenCatalog[1], "SELL", "SHORT"),
      IronCondor(GenCatalog[1], GenCatalog[6], GenCatalog[2], GenCatalog[8], "LONG"),
      IronCondor(GenCatalog[1],
                 Opt(ExpiryA, 116, "CALL", 0, 0, 5, 5, 1, -1, 1, 30, None, None),
                 Opt(ExpiryA, 95, "PUT", 1, 3, 5, 5, -4, -1, 2, 30, Some(1), Some(1)),
                 GenCatalog[2], "SHORT"),
      Straddle(GenCatalog[3], GenCatalog[4], "SHORT") }

MaxRanked == 3

RankLists == SeqsUpTo(RankCatalog, MaxRanked)

\* keys handed to rank: the four it knows and two it does not
RankKeyArgs == RankKeys \cup {"liquidity", "credit"}

\* sizes handed to top
TopSizes == 0..(MaxRanked + 1)

\* contracts of two expiries, the later expiry listed first, with one strike
\* and side listed twice at different prices
DupCatalog ==
    << Opt(ExpiryB, 110, "CALL", 4, 3, 10, 10, 3, -1, 2, 65, Some(3), Some(5)),
       Opt(ExpiryB, 110, "PUT", 9, 3, 10, 10, -6, -1, 2, 65, Some(8), Some(10)),
       Opt(ExpiryB, 90, "PUT", 3, 3, 10, 10, -3, -1, 2, 65, Some(2), Some(4)),
       GenCatalog[1], GenCatalog[7], GenCatalog[6], GenCatalog[2], GenCatalog[8] >>

\* universes over these contracts, bounded like Universes
DupUniverses ==
    {[i \in 1..Len(ix) |-> DupCatalog[ix[i]]] :
        ix \in {s \in SeqsUpTo(1..Len(DupCatalog), MaxUniverse) :
                    Len(s) <= AnyOrderLen \/ Monotone(s)}}

\* configurations of the repeated generator runs
TwiceCfgs == {WithDirection(NoCfg, "LONG"), WithDirection(NoCfg, "SHORT")}

-----------------------------------------------------------------------------
(* Operations.                                                             *)

Idle ==
    /\ op = "none"
    /\ kindArg = "none"
    /\ sfArg = NoSf
    /\ cfgArg = NoCfg
    /\ before = universe
    /\ outcome = "none"
    /\ result = <<>>
    /\ pc = <<>>
    /\ seen = <<>>
    /\ opts = <<>>
    /\ out = <<>>

\* one call generators_[kind]->generate(cfg)
GenCall(kind, cfg) ==
    LET g == GeneratorRun(kind, universe, spot, cfg, sortTies)
    IN /\ universe' = g.universe
       /\ before' = universe
       /\ op' = "gen"
       /\ kindArg' = kind
       /\ cfgArg' = cfg
       /\ outcome' = IF g.threw THEN "threw" ELSE "ok"
       /\ result' = g.strategies
       /\ UNCHANGED <<original, spot, sortTies, sfArg, pc, seen, opts, out>>

\* OptionFilter(universe, spot).apply_filter(cfg).result(), called directly
ApplyFilter(cfg) ==
    /\ universe' = apply_filter(universe, cfg)
    /\ before' = universe
    /\ op' = "apply"
    /\ cfgArg' = cfg
    /\ outcome' = "ok"
    /\ result' = apply_filter(universe, cfg)
    /\ UNCHANGED <<original, spot, sortTies, kindArg, sfArg, pc, seen, opts, out>>

\* one call factory.generate(s_filter, c_filter)
Generate(s_filter, c_filter) ==
    LET g == generate(universe, spot, s_filter, c_filter, sortTies)
    IN /\ universe' = g.universe
       /\ before' = universe
       /\ op' = "generate"
       /\ sfArg' = s_filter
       /\ cfgArg' = c_filter
       /\ outcome' = IF g.threw THEN "threw" ELSE "ok"
       /\ result' = g.strategies
       /\ UNCHANGED <<original, spot, sortTies, kindArg, pc, seen, opts, out>>

\* a factory built over a loaded universe
Init ==
    /\ universe \in FactoryUniverses
    /\ original = universe
    /\ spot = 100
    /\ sortTies = "stable"
    /\ Idle

\* any sequence of calls on the factory, on its generators or on an
\* OptionFilter over the same universe
Next ==
    \/ \E sf \in FactorySfs, cfg \in FactoryCfgs : Generate(sf, cfg)
    \/ \E kind \in KindSet, cfg \in DirectCfgs : GenCall(kind, cfg)
    \/ \E cfg \in DirectCfgs : ApplyFilter(cfg)

Spec == Init /\ [][Next]_vars

\* Two generators of one factory run concurrently.  Each runs generate(cfg):
\* per set predicate, OptionFilter::filter reads universe_ into its local
\* `filtered` and then assigns it to universe_; generate then copies result()
\* into `opts` and builds its candidates from the copy.  The reads and writes
\* of the shared vector are the steps that interleave.
Threads == {1, 2}

\* the first set predicate at or after step i, Len(FilterSteps) + 1 when none
RECURSIVE NextStep(_, _)
NextStep(cfg, i) ==
    IF i > Len(FilterSteps) \/ StepSet(cfg, FilterSteps[i]) THEN i
    ELSE NextStep(cfg, i + 1)

\* where a generator stands once it is about to handle step i
PcAt(cfg, i) ==
    IF NextStep(cfg, i) > Len(FilterSteps)
    THEN [at |-> "result", step |-> Len(FilterSteps) + 1]
    ELSE [at |-> "read", step |-> NextStep(cfg, i)]

\* the loop of filter: universe_ read into `filtered`
ParRead(t) ==
    /\ pc[t].at = "read"
    /\ seen' = [seen EXCEPT ![t] = filter(universe, cfgArg, FilterSteps[pc[t].step])]
    /\ pc' = [pc EXCEPT ![t].at = "write"]
    /\ UNCHANGED <<universe, original, spot, sortTies, op, kindArg, sfArg, cfgArg,
                   before, outcome, result, opts, out>>

\* universe_ = std::move(filtered)
ParWrite(t) ==
    /\ pc[t].at = "write"
    /\ universe' = seen[t]
    /\ pc' = [pc EXCEPT ![t] = PcAt(cfgArg, pc[t].step + 1)]
    /\ UNCHANGED <<original, spot, sortTies, op, kindArg, sfArg, cfgArg,
                   before, outcome, result, seen, opts, out>>

\* std::vector<Option> opts = ... .result()
ParResult(t) ==
    /\ pc[t].at = "result"
    /\ opts' = [opts EXCEPT ![t] = universe]
    /\ pc' = [pc EXCEPT ![t].at = "generate"]
    /\ UNCHANGED <<universe, original, spot, sortTies, op, kindArg, sfArg, cfgArg,
                   before, outcome, result, seen, out>>

\* the rest of generate, on the generator's own copy
ParGenerate(t) ==
    /\ pc[t].at = "generate"
    /\ IF Has(cfgArg.direction)
       THEN /\ out' = [out EXCEPT ![t] =
                          CandidatesOf(kindArg[t], opts[t], spot, cfgArg, sortTies)]
            /\ pc' = [pc EXCEPT ![t].at = "done"]
       ELSE /\ out' = out
            /\ pc' = [pc EXCEPT ![t].at = "threw"]
    /\ UNCHANGED <<universe, original, spot, sortTies, op, kindArg, sfArg, cfgArg,
                   before, outcome, result, seen, opts>>

\* configurations of the fan-out: no, one and two option-level predicates
ParCfgs ==
    { WithDirection(NoCfg, "LONG"),
      [WithDirection(NoCfg, "SHORT") EXCEPT !.min_price = Some(4)],
      [WithDirection(NoCfg, "LONG") EXCEPT !.min_volume = Some(10),
                                           !.min_price = Some(4)] }

InitPar ==
    /\ universe \in FactoryUniverses
    /\ original = universe
    /\ before = universe
    /\ spot = 100
    /\ sortTies = "stable"
    /\ op = "fanout"
    /\ kindArg \in {kk \in KindSet \X KindSet : kk[1] # kk[2]}
    /\ sfArg = NoSf
    /\ cfgArg \in ParCfgs
    /\ outcome = "none"
    /\ result = <<>>
    /\ pc = [t \in Threads |-> PcAt(cfgArg, 1)]
    /\ seen = [t \in Threads |-> <<>>]
    /\ opts = [t \in Threads |-> <<>>]
    /\ out = [t \in Threads |-> <<>>]

NextPar ==
    \E t \in Threads : ParRead(t) \/ ParWrite(t) \/ ParResult(t) \/ ParGenerate(t)

SpecPar == InitPar /\ [][NextPar]_vars

InitRange ==
    /\ universe \in RangeUniverses
    /\ original = universe
    /\ spot = 100
    /\ sortTies = "stable"
    /\ Idle

\* one generate call on a factory over a universe as loaded
NextRange ==
    \E sf \in AllSfs, cfg \in RangeCfgs : op = "none" /\ Generate(sf, cfg)

SpecRange == InitRange /\ [][NextRange]_vars

InitFilter ==
    /\ universe \in FilterUniverses
    /\ original = universe
    /\ spot = 100
    /\ sortTies = "stable"
    /\ Idle

NextFilter == \E cfg \in OptionCfgs : ApplyFilter(cfg)

SpecFilter == InitFilter /\ [][NextFilter]_vars

InitGen ==
    /\ universe \in Universes
    /\ original = universe
    /\ spot \in Spots
    /\ sortTies \in TieOrders
    /\ Idle

\* a generator called once on a universe as loaded
NextGen ==
    \E kind \in KindSet, cfg \in GenCfgs : op = "none" /\ GenCall(kind, cfg)

SpecGen == InitGen /\ [][NextGen]_vars

\* filter_strategies(strategies, c_filter); `before` holds the list handed in
FilterStrategies ==
    /\ op = "none"
    /\ op' = "filter_strategies"
    /\ outcome' = "ok"
    /\ result' = filter_strategies(before, cfgArg)
    /\ UNCHANGED <<universe, original, spot, sortTies, kindArg, sfArg, cfgArg,
                   before, pc, seen, opts, out>>

\* check_range(value, range) as filter_strategies calls it on a metric;
\* `before` holds the value, rr_range the range, `result` the answer
CheckRange(value, range) ==
    /\ op = "none"
    /\ before = <<>>
    /\ op' = "check_range"
    /\ before' = value
    /\ cfgArg' = [NoCfg EXCEPT !.rr_range = range]
    /\ outcome' = "ok"
    /\ result' = check_range(value, range)
    /\ UNCHANGED <<universe, original, spot, sortTies, kindArg, sfArg, pc, seen,
                   opts, out>>

InitStrat ==
    /\ universe = <<>>
    /\ original = <<>>
    /\ spot = 100
    /\ sortTies = "stable"
    /\ op = "none"
    /\ kindArg = "none"
    /\ sfArg = NoSf
    /\ cfgArg \in StratCfgs
    /\ before \in CandidateLists
    /\ outcome = "none"
    /\ result = <<>>
    /\ pc = <<>>
    /\ seen = <<>>
    /\ opts = <<>>
    /\ out = <<>>

\* the range filter run once on a list of candidates, or check_range once on
\* a value
NextStrat ==
    \/ FilterStrategies
    \/ \E value \in CheckValues, range \in CheckRanges : CheckRange(value, range)

SpecStrat == InitStrat /\ [][NextStrat]_vars

\* the arguments of the last rank / top call
RankArgs(key, reverse, n) == [key |-> key, reverse |-> reverse, n |-> n]

\* L.rank(key, reverse) on a StrategyList L; `before` holds L's strategies_
Rank(key, reverse) ==
    /\ op = "none"
    /\ op' = "rank"
    /\ kindArg' = RankArgs(key, reverse, 0)
    /\ outcome' = "ok"
    /\ result' = rank(before, key, reverse, sortTies)
    /\ UNCHANGED <<universe, original, spot, sortTies, sfArg, cfgArg, before, pc,
                   seen, opts, out>>

\* L.top(n)
Top(n) ==
    /\ op = "none"
    /\ op' = "top"
    /\ kindArg' = RankArgs("none", FALSE, n)
    /\ outcome' = "ok"
    /\ result' = top(before, n)
    /\ UNCHANGED <<universe, original, spot, sortTies, sfArg, cfgArg, before, pc,
                   seen, opts, out>>

\* L.rank(key, reverse).top(n), as main chains them
RankTop(key, reverse, n) ==
    /\ op = "none"
    /\ op' = "rank.top"
    /\ kindArg' = RankArgs(key, reverse, n)
    /\ outcome' = "ok"
    /\ result' = top(rank(before, key, reverse, sortTies), n)
    /\ UNCHANGED <<universe, original, spot, sortTies, sfArg, cfgArg, before, pc,
                   seen, opts, out>>

InitRank ==
    /\ universe = <<>>
    /\ original = <<>>
    /\ spot = 100
    /\ sortTies \in TieOrders
    /\ op = "none"
    /\ kindArg = "none"
    /\ sfArg = NoSf
    /\ cfgArg = NoCfg
    /\ before \in RankLists
    /\ outcome = "none"
    /\ result = <<>>
    /\ pc = <<>>
    /\ seen = <<>>
    /\ opts = <<>>
    /\ out = <<>>

\* one rank, one top, or one rank-then-top on a StrategyList
NextRank ==
    \/ \E key \in RankKeyArgs, reverse \in BOOLEAN : Rank(key, reverse)
    \/ \E n \in TopSizes : Top(n)
    \/ \E key \in RankKeyArgs, reverse \in BOOLEAN, n \in TopSizes :
          RankTop(key, reverse, n)

SpecRank == InitRank /\ [][NextRank]_vars

\* L.rank(key, reverse) on a list L that may have been called before;
\* `before` is L's strategies_, `original` what L was built with
ListRank(key, reverse) ==
    LET r == RankRun(before, key, reverse, sortTies)
    IN /\ before' = r.strategies_
       /\ result' = r.returned
       /\ op' = "rank"
       /\ kindArg' = RankArgs(key, reverse, 0)
       /\ outcome' = "ok"
       /\ UNCHANGED <<universe, original, spot, sortTies, sfArg, cfgArg, pc, seen,
                      opts, out>>

\* L.top(n) likewise
ListTop(n) ==
    LET r == TopRun(before, n)
    IN /\ before' = r.strategies_
       /\ result' = r.returned
       /\ op' = "top"
       /\ kindArg' = RankArgs("none", FALSE, n)
       /\ outcome' = "ok"
       /\ UNCHANGED <<universe, original, spot, sortTies, sfArg, cfgArg, pc, seen,
                      opts, out>>

InitList ==
    /\ universe = <<>>
    /\ original \in RankLists
    /\ before = original
    /\ spot = 100
    /\ sortTies \in TieOrders
    /\ op = "none"
    /\ kindArg = "none"
    /\ sfArg = NoSf
    /\ cfgArg = NoCfg
    /\ outcome = "none"
    /\ result = <<>>
    /\ pc = <<>>
    /\ seen = <<>>
    /\ opts = <<>>
    /\ out = <<>>

\* any sequence of rank and top calls on one StrategyList
NextList ==
    \/ \E key \in RankKeyArgs, reverse \in BOOLEAN : ListRank(key, reverse)
    \/ \E n \in TopSizes : ListTop(n)

SpecList == InitList /\ [][NextList]_vars

\* the same generator run once more, by a factory built over the same input
\* universe; `out` holds what this second run returns
Rerun ==
    /\ op = "gen"
    /\ op' = "rerun"
    /\ out' = <<GeneratorRun(kindArg, original, spot, cfgArg, sortTies).strategies>>
    /\ UNCHANGED <<universe, original, spot, sortTies, kindArg, sfArg, cfgArg,
                   before, outcome, result, pc, seen, opts>>

InitTwice ==
    /\ universe \in DupUniverses
    /\ original = universe
    /\ spot = 100
    /\ sortTies \in TieOrders
    /\ Idle

\* a generator run on a universe as loaded, then run again on the same input
NextTwice ==
    \/ \E kind \in KindSet, cfg \in TwiceCfgs : op = "none" /\ GenCall(kind, cfg)
    \/ Rerun

SpecTwice == InitTwice /\ [][NextTwice]_vars

MaxCalls == 3

\* one call factory.generate(s_filter, c_filter) with at least one kind
\* enabled; `seen` is the history of the ConfigFilters passed so far
LoggedGenerate(s_filter, c_filter) ==
    LET g == generate(universe, spot, s_filter, c_filter, sortTies)
    IN /\ Len(seen) < MaxCalls
       /\ \E k \in KindSet : s_filter[k]
       /\ universe' = g.universe
       /\ before' = universe
       /\ op' = "generate"
       /\ sfArg' = s_filter
       /\ cfgArg' = c_filter
       /\ outcome' = IF g.threw THEN "threw" ELSE "ok"
       /\ result' = g.strategies
       /\ seen' = Append(seen, c_filter)
       /\ UNCHANGED <<original, spot, sortTies, kindArg, pc, opts, out>>

\* up to MaxCalls generate calls on one factory
NextCalls == \E sf \in FactorySfs, cfg \in FactoryCfgs : LoggedGenerate(sf, cfg)

SpecCalls == Init /\ [][NextCalls]_vars

-----------------------------------------------------------------------------
(* Option-level filtering.                                                 *)

\* the option-level predicates of a ConfigFilter, as the contract lists them
Meets(o, cfg) ==
    /\ Has(cfg.min_volume) => o.volume >= Val(cfg.min_volume)
    /\ Has(cfg.min_oi) => o.oi >= Val(cfg.min_oi)
    /\ Has(cfg.min_price) => (IF o.mid > 0 THEN o.mid ELSE 0) >= Val(cfg.min_price)
    /\ Has(cfg.expiry) => o.expiry = Val(cfg.expiry)
    /\ Has(cfg.days_to_expiry_range) =>
          o.days_to_expiry \in
              Val(cfg.days_to_expiry_range)[1]..Val(cfg.days_to_expiry_range)[2]
    /\ Has(cfg.volume_ratio_range) =>
          /\ o.oi > 0
          /\ Val(cfg.volume_ratio_range)[1] * o.oi <= o.volume
          /\ o.volume <= Val(cfg.volume_ratio_range)[2] * o.oi
    /\ Has(cfg.max_bid_ask_spread) =>
          /\ o.bid # None
          /\ o.ask # None
          /\ o.ask[1] - o.bid[1] <= Val(cfg.max_bid_ask_spread)
          /\ o.bid[1] - o.ask[1] <= Val(cfg.max_bid_ask_spread)

\* C4: apply_filter(cfg) returns exactly the records of the universe it was
\* called on that satisfy every present option-level predicate, in their
\* original relative order; with volume_ratio_range set no record of open
\* interest 0 is returned, and with max_bid_ask_spread set no record lacking
\* bid or ask is returned.
C4_ApplyFilterExact ==
    op = "apply" =>
        /\ result = SelectSeq(before, LAMBDA o : Meets(o, cfgArg))
        /\ Has(cfgArg.volume_ratio_range) =>
              \A i \in 1..Len(result) : result[i].oi # 0
        /\ Has(cfgArg.max_bid_ask_spread) =>
              \A i \in 1..Len(result) : Has(result[i].bid) /\ Has(result[i].ask)

\* a call with volume_ratio_range set on a universe holding a zero-OI record
\* with volume, which kept some records and dropped others
C4_Witness ==
    /\ op = "apply"
    /\ Has(cfgArg.volume_ratio_range)
    /\ \E i \in 1..Len(before) : before[i].oi = 0 /\ before[i].volume > 0
    /\ result # <<>>
    /\ Len(result) < Len(before)

\* C5: filtering is idempotent: apply_filter(cfg) on what apply_filter(cfg)
\* returned yields the identical sequence.
C5_Idempotent ==
    op = "apply" => apply_filter(result, cfgArg) = result

\* a call with at least two predicates set that kept some records and dropped
\* others
C5_Witness ==
    /\ op = "apply"
    /\ Cardinality({i \in 1..Len(FilterSteps) : StepSet(cfgArg, FilterSteps[i])}) >= 2
    /\ result # <<>>
    /\ Len(result) < Len(before)

-----------------------------------------------------------------------------
(* Generators.                                                             *)

\* the universe a generator builds from: the records of the universe it was
\* called on that meet the option-level predicates
Filtered == SelectSeq(before, LAMBDA o : Meets(o, cfgArg))

\* number of elements of s equal to v
Count(s, v) == Cardinality({i \in 1..Len(s) : s[i] = v})

IronCondorCall == op = "gen" /\ kindArg = "iron_condors" /\ outcome = "ok"

\* C8: every IronCondor emitted has short_call.strike < long_call.strike,
\* long_put.strike < short_put.strike and short_call.strike > spot >
\* short_put.strike.
C8_IronCondorGeometry ==
    IronCondorCall =>
        \A i \in 1..Len(result) :
            /\ result[i].kind = "IronCondor"
            /\ result[i].legs[1].strike < result[i].legs[2].strike
            /\ result[i].legs[4].strike < result[i].legs[3].strike
            /\ result[i].legs[1].strike > spot
            /\ spot > result[i].legs[3].strike

\* an IronCondor call that emitted several condors from a universe listing a
\* strike twice
C8_Witness ==
    /\ IronCondorCall
    /\ Len(result) >= 2
    /\ \E i, j \in 1..Len(before) :
          i # j /\ before[i].strike = before[j].strike
                /\ before[i].side = before[j].side

\* positions <<short call, long call, short put, long put>> in the filtered
\* universe that form an iron condor of one expiry
CondorTuples ==
    LET F == Filtered
        N == 1..Len(F)
        SC == {a \in N : F[a].side = "CALL" /\ F[a].strike > spot}
        SP(a) == {c \in N : /\ F[c].side = "PUT" /\ F[c].strike < spot
                            /\ F[c].expiry = F[a].expiry}
        LC(a) == {b \in N : /\ F[b].side = "CALL" /\ F[b].strike > F[a].strike
                            /\ F[b].expiry = F[a].expiry}
        LP(c) == {d \in N : /\ F[d].side = "PUT" /\ F[d].strike < F[c].strike
                            /\ F[d].expiry = F[c].expiry}
    IN UNION {UNION {{<<a, b, c, d>> : b \in LC(a), d \in LP(c)} : c \in SP(a)}
              : a \in SC}

CondorAt(t) ==
    [kind |-> "IronCondor",
     legs |-> <<Filtered[t[1]], Filtered[t[2]], Filtered[t[3]], Filtered[t[4]]>>,
     action |-> "NA", direction |-> Val(cfgArg.direction)]

\* C9: IronCondorsGenerator::generate emits exactly one IronCondor for every
\* 4-tuple (short call above spot, long call strictly above it, short put
\* below spot, long put strictly below it) of one expiry chain of the filtered
\* universe: none missing, none twice, none mixing two expiries.
C9_IronCondorComplete ==
    IronCondorCall =>
        /\ Len(result) = Cardinality(CondorTuples)
        /\ \A t \in CondorTuples :
              Count(result, CondorAt(t)) =
                  Cardinality({t2 \in CondorTuples : CondorAt(t2) = CondorAt(t)})
        /\ \A i \in 1..Len(result) : \A l \in 1..4 :
              result[i].legs[l].expiry = result[i].legs[1].expiry

\* an IronCondor call that emitted a condor while the filtered universe also
\* held a put below spot of another expiry than the condor's
C9_Witness ==
    /\ IronCondorCall
    /\ \E t \in CondorTuples : \E i \in 1..Len(Filtered) :
          /\ Filtered[i].expiry # Filtered[t[1]].expiry
          /\ Filtered[i].side = "PUT"
          /\ Filtered[i].strike < spot

StraddleCall == op = "gen" /\ kindArg = "straddles" /\ outcome = "ok"

\* positions <<call, put>> in the filtered universe of one expiry and of equal
\* strike
StraddlePairs ==
    {pr \in (1..Len(Filtered)) \X (1..Len(Filtered)) :
        /\ Filtered[pr[1]].side = "CALL"
        /\ Filtered[pr[2]].side = "PUT"
        /\ Filtered[pr[1]].expiry = Filtered[pr[2]].expiry
        /\ Filtered[pr[1]].strike = Filtered[pr[2]].strike}

StraddleAt(pr) ==
    [kind |-> "Straddle", legs |-> <<Filtered[pr[1]], Filtered[pr[2]]>>,
     action |-> "NA", direction |-> Val(cfgArg.direction)]

\* mid floored at 0
FlooredMid(o) == IF o.mid < 0 THEN 0 ELSE o.mid

\* Scenario A: one call and one put at strike 100 in one expiry, spot 100,
\* direction SHORT, min_price = 0
ScenarioA ==
    /\ StraddleCall
    /\ Len(before) = 2
    /\ \E i, j \in 1..2 :
          /\ before[i].side = "CALL" /\ before[j].side = "PUT"
          /\ before[i].strike = 100 /\ before[j].strike = 100
          /\ before[i].expiry = before[j].expiry
    /\ spot = 100
    /\ cfgArg.direction = Some("SHORT")
    /\ cfgArg.min_price = Some(0)

\* C10: StraddlesGenerator::generate emits exactly one Straddle per (call, put)
\* pair of one expiry chain with equal strike, whatever the spot and once per
\* matching pair when a strike is listed twice, each with the configured
\* direction; a SHORT straddle has debit 0, credit = (call.price + put.price)
\* x 100 and max_loss = +infinity; Scenario A gives exactly one Straddle.
C10_StraddlesExact ==
    StraddleCall =>
        /\ Len(result) = Cardinality(StraddlePairs)
        /\ \A pr \in StraddlePairs :
              Count(result, StraddleAt(pr)) =
                  Cardinality({p2 \in StraddlePairs : StraddleAt(p2) = StraddleAt(pr)})
        /\ \A i \in 1..Len(result) :
              /\ result[i].direction = Val(cfgArg.direction)
              /\ result[i].direction = "SHORT" =>
                    /\ debit(result[i]) = Fin(0)
                    /\ credit(result[i]) =
                          Fin((FlooredMid(result[i].legs[1])
                               + FlooredMid(result[i].legs[2])) * 100)
                    /\ max_loss(result[i]) = PInf
        /\ ScenarioA => Len(result) = 1

\* Scenario A was run and gave one SHORT straddle of unbounded loss
C10_Witness ==
    /\ ScenarioA
    /\ Len(result) = 1
    /\ result[1].direction = "SHORT"
    /\ max_loss(result[1]) = PInf

StrangleCall == op = "gen" /\ kindArg = "strangles" /\ outcome = "ok"

\* positions <<call, put>> in the filtered universe of one expiry, the call
\* above the spot and the put below it
StranglePairs ==
    LET F == Filtered
    IN {pr \in (1..Len(F)) \X (1..Len(F)) :
          /\ F[pr[1]].side = "CALL" /\ F[pr[1]].strike > spot
          /\ F[pr[2]].side = "PUT" /\ F[pr[2]].strike < spot
          /\ F[pr[1]].expiry = F[pr[2]].expiry}

StrangleAt(pr) ==
    [kind |-> "Strangle", legs |-> <<Filtered[pr[1]], Filtered[pr[2]]>>,
     action |-> "NA", direction |-> Val(cfgArg.direction)]

\* the expiries of the filtered universe
FilteredExpiries == {Filtered[i].expiry : i \in 1..Len(Filtered)}

\* number of calls above the spot / puts below the spot of expiry e in the
\* filtered universe
OtmCalls(e) ==
    LET F == Filtered
    IN Cardinality({i \in 1..Len(F) :
          F[i].expiry = e /\ F[i].side = "CALL" /\ F[i].strike > spot})

OtmPuts(e) ==
    LET F == Filtered
    IN Cardinality({i \in 1..Len(F) :
          F[i].expiry = e /\ F[i].side = "PUT" /\ F[i].strike < spot})

\* C11: StranglesGenerator::generate emits exactly one Strangle for every pair
\* (call with strike > spot, put with strike < spot) of one expiry chain of
\* the filtered universe: per expiry (#OTM calls) x (#OTM puts) strangles, and
\* no leg exactly at the spot.
C11_StranglesCrossProduct ==
    StrangleCall =>
        /\ Len(result) = Cardinality(StranglePairs)
        /\ LET pairs == StranglePairs
               at == [pr \in pairs |-> StrangleAt(pr)]
           IN \A pr \in pairs :
                 Count(result, at[pr]) =
                     Cardinality({p2 \in pairs : at[p2] = at[pr]})
        /\ \A e \in FilteredExpiries :
              Cardinality({i \in 1..Len(result) : result[i].legs[1].expiry = e})
                  = OtmCalls(e) * OtmPuts(e)
        /\ \A i \in 1..Len(result) :
              /\ result[i].kind = "Strangle"
              /\ result[i].legs[1].strike # spot
              /\ result[i].legs[2].strike # spot
              /\ result[i].legs[1].expiry = result[i].legs[2].expiry

\* a strangle call that emitted the four strangles of two calls above and two
\* puts below the spot, next to a contract exactly at the spot
C11_Witness ==
    /\ StrangleCall
    /\ \E e \in FilteredExpiries : OtmCalls(e) = 2 /\ OtmPuts(e) = 2
    /\ \E i \in 1..Len(Filtered) : Filtered[i].strike = spot
    /\ Len(result) = 4

SingleCallsCall == op = "gen" /\ kindArg = "single_calls" /\ outcome = "ok"

-----------------------------------------------------------------------------
(* The factory and the caller's universe.                                  *)

\* C1: option-level filtering has no side effect on its input: after
\* apply_filter, after any generator's generate(cfg) and after
\* StrategyFactory::generate, the caller's universe holds the same records in
\* the same order as before the call.
C1_UniverseUntouched ==
    op \in {"apply", "gen", "generate"} => universe = before

\* what a fresh factory over the original universe returns for the arguments
\* of the last generate call
FreshGenerate == generate(original, spot, sfArg, cfgArg, sortTies)

\* C2: results are independent of call history: what a generate call returns
\* equals what a fresh factory over the original universe returns for the same
\* (s_filter, c_filter).
C2_HistoryIndependent ==
    (op = "generate" /\ outcome = "ok") =>
        /\ ~FreshGenerate.threw
        /\ result = FreshGenerate.strategies

\* Scenario B: the two calls at 100 and 110 and the two puts at 100 and 90,
\* spot 100, a direction set, no range filter, only iron_condors enabled
ScenarioB ==
    /\ op = "generate"
    /\ before = ScenarioBUniverse
    /\ spot = 100
    /\ sfArg = Sf(FALSE, TRUE, FALSE, FALSE)
    /\ cfgArg \in {WithDirection(NoCfg, "LONG"), WithDirection(NoCfg, "SHORT")}

\* the same call on the chain one strike off the spot
ScenarioBShifted ==
    /\ op = "generate"
    /\ before = CondorChain
    /\ spot = 100
    /\ sfArg = Sf(FALSE, TRUE, FALSE, FALSE)
    /\ cfgArg \in {WithDirection(NoCfg, "LONG"), WithDirection(NoCfg, "SHORT")}

\* C7 as stated: Scenario B returns exactly one IronCondor (short call 100,
\* long call 110, short put 100, long put 90) of width 1000 and max_loss =
\* 1000 - credit.
C7_ScenarioB_AsStated ==
    ScenarioB =>
        /\ outcome = "ok"
        /\ Len(result) = 1
        /\ result[1].kind = "IronCondor"
        /\ result[1].legs[1].strike = 100
        /\ result[1].legs[2].strike = 110
        /\ result[1].legs[3].strike = 100
        /\ result[1].legs[4].strike = 90
        /\ width(result[1]) = Fin(1000)
        /\ max_loss(result[1]) = Sub(Fin(1000), credit(result[1]))

\* C7: Scenario B returns no IronCondor, the strike-100 legs not being out of
\* the money at spot 100; on the chain one strike off the spot (calls 110 and
\* 120, puts 90 and 80) the call returns exactly one IronCondor (short call
\* 110, long call 120, short put 90, long put 80) of width 10 x 100 = 1000 and
\* max_loss = 1000 - credit.
C7_ScenarioB ==
    /\ ScenarioB => (outcome = "ok" /\ result = <<>>)
    /\ ScenarioBShifted =>
        /\ outcome = "ok"
        /\ Len(result) = 1
        /\ result[1].kind = "IronCondor"
        /\ result[1].legs[1].strike = 110
        /\ result[1].legs[2].strike = 120
        /\ result[1].legs[3].strike = 90
        /\ result[1].legs[4].strike = 80
        /\ (result[1].legs[2].strike - result[1].legs[1].strike) * 100 = 1000
        /\ max_loss(result[1]) =
              Fin(1000 - (FlooredMid(result[1].legs[1])
                          + FlooredMid(result[1].legs[3])) * 100)

\* Scenario B was run
C7_Witness == ScenarioB /\ outcome = "ok"

\* C26 as stated: when generate fails because direction is absent, the
\* universe referenced by the factory is exactly as it was before the call.
C26_FailedRunLeavesNoTrace ==
    (op = "generate" /\ outcome = "threw") => universe = before

\* u is `original` with some records left out, the others in their order
RECURSIVE IsSubSeq(_, _)
IsSubSeq(u, o) ==
    \/ u = <<>>
    \/ /\ o # <<>>
       /\ \/ (Head(u) = Head(o) /\ IsSubSeq(Tail(u), Tail(o)))
          \/ IsSubSeq(u, Tail(o))

\* C27: after any sequence of generate calls with at least one kind enabled,
\* failed or not, the factory's universe is the original universe restricted,
\* in original order, to the records satisfying the option-level predicates
\* of every ConfigFilter passed so far; it never grows, never reorders and
\* never regains a dropped record.
C27_UniverseNarrowsAcrossCalls ==
    /\ universe = SelectSeq(original,
                    LAMBDA o : \A c \in 1..Len(seen) : Meets(o, seen[c]))
    /\ Len(universe) <= Len(before)
    /\ IsSubSeq(universe, before)
    /\ IsSubSeq(before, original)

\* three calls on a four-record universe, the second failed on the missing
\* direction, the third returned strategies built on the narrowed universe
C27_Witness ==
    /\ Len(seen) = 3
    /\ ~Has(seen[2].direction)
    /\ Has(seen[3].direction)
    /\ outcome = "ok"
    /\ result # <<>>
    /\ Len(original) = 4
    /\ universe # <<>>
    /\ Len(universe) < Len(original)

-----------------------------------------------------------------------------
(* Concatenation of the kinds, and the missing direction.                  *)

\* what an enabled kind contributes to the last generate call: its candidates
\* over the filtered universe that pass the range filter, in generation order
Survivors(kind) ==
    IF sfArg[kind]
    THEN SelectSeq(CandidatesOf(kind, Filtered, spot, cfgArg, sortTies),
                   LAMBDA st : passes(st, cfgArg))
    ELSE <<>>

\* position of a strategy class in the declared order
KindRank(k) ==
    CASE k = "SingleLeg" -> 1
      [] k = "IronCondor" -> 2
      [] k = "Straddle" -> 3
      [] k = "Strangle" -> 4

\* C13: generate returns the concatenation, in the order single legs, iron
\* condors, straddles, strangles, of each enabled kind's candidates that pass
\* the range filter, in generation order; a disabled kind contributes
\* nothing and nothing is dropped or merged across kinds.
C13_ConcatenationInKindOrder ==
    (op = "generate" /\ outcome = "ok") =>
        /\ result = Survivors("single_calls") \o Survivors("iron_condors")
                        \o Survivors("straddles") \o Survivors("strangles")
        /\ Len(result) = Len(Survivors("single_calls")) + Len(Survivors("iron_condors"))
                           + Len(Survivors("straddles")) + Len(Survivors("strangles"))
        /\ \A i \in 1..(Len(result) - 1) :
              KindRank(result[i].kind) <= KindRank(result[i + 1].kind)
        /\ ~sfArg.single_calls => \A i \in 1..Len(result) : result[i].kind # "SingleLeg"
        /\ ~sfArg.iron_condors => \A i \in 1..Len(result) : result[i].kind # "IronCondor"
        /\ ~sfArg.straddles => \A i \in 1..Len(result) : result[i].kind # "Straddle"
        /\ ~sfArg.strangles => \A i \in 1..Len(result) : result[i].kind # "Strangle"

\* a generate call with all kinds but single legs enabled, to which iron
\* condors, straddles and strangles each contributed and whose range filter
\* dropped some strangles and kept others
C13_Witness ==
    /\ op = "generate"
    /\ outcome = "ok"
    /\ sfArg = Sf(FALSE, TRUE, TRUE, TRUE)
    /\ Len(Survivors("iron_condors")) = 1
    /\ Len(Survivors("straddles")) = 1
    /\ Len(Survivors("strangles")) >= 2
    /\ Len(Survivors("strangles")) <
          Len(CandidatesOf("strangles", Filtered, spot, cfgArg, sortTies))

\* C14: when at least one kind is enabled and ConfigFilter.direction is
\* absent, generate throws and returns no list, whatever the universe (also
\* when the filtered universe is empty); no partial result is returned.
C14_MissingDirectionThrows ==
    (/\ op = "generate"
     /\ ~Has(cfgArg.direction)
     /\ \E k \in KindSet : sfArg[k])
        => (outcome = "threw" /\ result = <<>>)

\* a generate call without direction, all kinds enabled, that threw over a
\* universe whose filtered records hold a straddle pair
C14_Witness ==
    /\ op = "generate"
    /\ ~Has(cfgArg.direction)
    /\ sfArg = Sf(TRUE, TRUE, TRUE, TRUE)
    /\ outcome = "threw"
    /\ \E i, j \in 1..Len(Filtered) :
          /\ Filtered[i].side = "CALL" /\ Filtered[j].side = "PUT"
          /\ Filtered[i].strike = Filtered[j].strike

\* the same over a universe none of whose records passes the option filter
C14_WitnessEmpty ==
    /\ op = "generate"
    /\ ~Has(cfgArg.direction)
    /\ outcome = "threw"
    /\ before # <<>>
    /\ Filtered = <<>>

-----------------------------------------------------------------------------
(* Inverted ranges.                                                        *)

\* field f of the last call's ConfigFilter is set to a range with low > high
InvertedIn(f) ==
    /\ Has(cfgArg[f])
    /\ IF f \in OptionRangeFields
       THEN Val(cfgArg[f])[1] > Val(cfgArg[f])[2]
       ELSE Gt(Val(cfgArg[f])[1], Val(cfgArg[f])[2])

\* the last call's ConfigFilter without its strategy-level ranges
Unranged ==
    [f \in DOMAIN cfgArg |-> IF f \in StrategyRangeFields THEN None ELSE cfgArg[f]]

\* what the last generate call would have returned without range filters
CandidatesBeforeRanges == generate(before, spot, sfArg, Unranged, sortTies).strategies

-----------------------------------------------------------------------------
(* Fan-out of generators.                                                  *)

\* what generator t returns when it runs alone over the input universe
Alone(t) == GeneratorRun(kindArg[t], original, spot, cfgArg, sortTies).strategies

\* C3: two generators of one factory run concurrently over the same input
\* universe, their reads and writes of the universe interleaved in any order,
\* each return exactly what they return when run alone.
C3_FanOutMatchesAlone ==
    op = "fanout" =>
        \A t \in Threads : pc[t].at = "done" => out[t] = Alone(t)

-----------------------------------------------------------------------------
(* The strategy range filter.                                              *)

RangeFilterCall == op = "filter_strategies"

\* the strategy-level ranges set in the last call's ConfigFilter
SetRanges == {f \in StrategyRangeFields : Has(cfgArg[f])}

\* sum and number of the strictly positive leg IVs of a strategy
PosIvSum(st) ==
    SumTo([l \in 1..Len(st.legs) |-> IF st.legs[l].iv > 0 THEN st.legs[l].iv ELSE 0],
          Len(st.legs))

PosIvCount(st) == Cardinality({l \in 1..Len(st.legs) : st.legs[l].iv > 0})

\* whether the check of range f is made on strategy st at all
Applies(f, st) ==
    CASE f = "debit_range" -> Gt(debit(st), Fin(0))
      [] f = "credit_range" -> Gt(credit(st), Fin(0))
      [] f = "iv_range" -> PosIvCount(st) > 0
      [] OTHER -> TRUE

\* the metric range f is about
Metric(f, st) ==
    CASE f = "debit_range" -> debit(st)
      [] f = "credit_range" -> credit(st)
      [] f = "potential_gain_range" -> max_gain(st)
      [] f = "potential_loss_range" -> max_loss(st)
      [] f = "rr_range" -> rr(st)
      [] f = "net_delta_range" -> net_delta(st)
      [] f = "net_theta_range" -> net_theta(st)
      [] f = "net_vega_range" -> net_vega(st)
      [] f = "iv_range" -> Rat(PosIvSum(st), PosIvCount(st))

\* lo <= v <= hi for the range set in field f
Inside(f, st) ==
    /\ Le(Val(cfgArg[f])[1], Metric(f, st))
    /\ Le(Metric(f, st), Val(cfgArg[f])[2])

\* a and b are the same number (fractions are not kept in lowest terms)
Same(a, b) == Le(a, b) /\ Le(b, a)

\* the range filter returned st
Kept(st) == \E j \in 1..Len(result) : result[j] = st

\* C15: for each set strategy-level range whose check applies to a strategy,
\* the check accepts iff lo <= value <= hi: a metric equal to lo or to hi is
\* accepted, one below lo or above hi is rejected.
C15_RangeInclusive ==
    RangeFilterCall =>
        \A i \in 1..Len(before) :
            LET st == before[i]
                checked == {f \in SetRanges : Applies(f, st)}
            IN /\ Kept(st) <=> \A f \in checked : Inside(f, st)
               /\ \A f \in checked :
                     /\ Lt(Metric(f, st), Val(cfgArg[f])[1]) => ~Kept(st)
                     /\ Gt(Metric(f, st), Val(cfgArg[f])[2]) => ~Kept(st)
               /\ (/\ checked # {}
                   /\ \A f \in checked :
                         /\ Le(Val(cfgArg[f])[1], Val(cfgArg[f])[2])
                         /\ \/ Same(Metric(f, st), Val(cfgArg[f])[1])
                            \/ Same(Metric(f, st), Val(cfgArg[f])[2]))
                     => Kept(st)

\* a list of two candidates under a range with lo < hi, one whose metric
\* equals lo and one whose metric equals hi, both kept
C15_Witness ==
    /\ RangeFilterCall
    /\ Len(before) = 2
    /\ result = before
    /\ \E f \in SetRanges :
          /\ SetRanges = {f}
          /\ Lt(Val(cfgArg[f])[1], Val(cfgArg[f])[2])
          /\ Applies(f, before[1]) /\ Applies(f, before[2])
          /\ Same(Metric(f, before[1]), Val(cfgArg[f])[1])
          /\ Same(Metric(f, before[2]), Val(cfgArg[f])[2])

\* the other set ranges, where checked, hold for st
OthersInside(f0, st) ==
    \A f \in SetRanges \ {f0} : Applies(f, st) => Inside(f, st)

\* C16: a strategy whose debit is 0 is never rejected because of a set
\* debit_range, whatever its bounds, and one whose credit is 0 never because
\* of a set credit_range; with debit > 0 (credit > 0) it is rejected iff its
\* debit (credit) lies outside the range.
C16_DebitCreditExemption ==
    RangeFilterCall =>
        \A i \in 1..Len(before) :
            LET st == before[i]
            IN /\ Has(cfgArg.debit_range) =>
                     IF debit(st) = Fin(0)
                     THEN Kept(st) <=> OthersInside("debit_range", st)
                     ELSE OthersInside("debit_range", st) =>
                            (~Kept(st) <=> ~Inside("debit_range", st))
               /\ Has(cfgArg.credit_range) =>
                     IF credit(st) = Fin(0)
                     THEN Kept(st) <=> OthersInside("credit_range", st)
                     ELSE OthersInside("credit_range", st) =>
                            (~Kept(st) <=> ~Inside("credit_range", st))

\* a debit_range not containing 0 that kept a candidate of debit 0 and
\* dropped a candidate of positive debit
C16_Witness ==
    /\ RangeFilterCall
    /\ SetRanges = {"debit_range"}
    /\ Gt(Val(cfgArg.debit_range)[1], Fin(0))
    /\ Len(before) = 2
    /\ debit(before[1]) = Fin(0)
    /\ Gt(debit(before[2]), Fin(0))
    /\ result = <<before[1]>>

\* C17: check_range lets +infinity through a set range only if the range's
\* high bound is +infinity and rejects NaN whenever the range is set; under
\* rr_range = (2, 5) a value of 1.99 is rejected, 2 is accepted and
\* +infinity is rejected, and so are the candidates with such an rr.
C17_InfiniteAndNaN ==
    /\ (op = "check_range" /\ Has(cfgArg.rr_range)) =>
          /\ (before = PInf /\ result) => Val(cfgArg.rr_range)[2] = PInf
          /\ IsNaN(before) => ~result
          /\ cfgArg.rr_range = Some(<<Fin(2), Fin(5)>>) =>
                /\ before = Rat(199, 100) => ~result
                /\ before = Fin(2) => result
                /\ before = PInf => ~result
    /\ (RangeFilterCall /\ SetRanges = {"rr_range"}) =>
          \A i \in 1..Len(before) :
              /\ (rr(before[i]) = PInf /\ Kept(before[i]))
                    => Val(cfgArg.rr_range)[2] = PInf
              /\ (cfgArg.rr_range = Some(<<Fin(2), PInf>>)) =>
                    (Kept(before[i]) <=> ~Lt(rr(before[i]), Fin(2)))
              /\ (cfgArg.rr_range = Some(<<Fin(2), Fin(500)>>)) =>
                    (Kept(before[i]) <=> Same(rr(before[i]), Fin(2)))

\* check_range rejected +infinity under the range (2, 5)
C17_Witness ==
    /\ op = "check_range"
    /\ cfgArg.rr_range = Some(<<Fin(2), Fin(5)>>)
    /\ before = PInf
    /\ result = FALSE

\* C18: iv_range is checked only when avg_iv is defined: a strategy none of
\* whose legs has IV > 0 is never rejected because of a set iv_range, and one
\* with a positive-IV leg is rejected iff the mean of its strictly positive
\* leg IVs lies outside the range.
C18_IvRangeOnlyWhenDefined ==
    (RangeFilterCall /\ Has(cfgArg.iv_range)) =>
        \A i \in 1..Len(before) :
            LET st == before[i]
            IN IF PosIvCount(st) = 0
               THEN Kept(st) <=> OthersInside("iv_range", st)
               ELSE OthersInside("iv_range", st) =>
                      (~Kept(st) <=>
                          ~(/\ Le(Val(cfgArg.iv_range)[1],
                                  Rat(PosIvSum(st), PosIvCount(st)))
                            /\ Le(Rat(PosIvSum(st), PosIvCount(st)),
                                  Val(cfgArg.iv_range)[2])))

\* an iv_range that kept a candidate without positive-IV leg and dropped an
\* iron condor whose mean positive IV (9/2, two legs of four) lies above it
C18_Witness ==
    /\ RangeFilterCall
    /\ SetRanges = {"iv_range"}
    /\ Len(before) = 2
    /\ PosIvCount(before[1]) = 0
    /\ before[2].kind = "IronCondor"
    /\ PosIvCount(before[2]) = 2
    /\ Gt(Rat(PosIvSum(before[2]), 2), Val(cfgArg.iv_range)[2])
    /\ result = <<before[1]>>

-----------------------------------------------------------------------------
(* Ranking.                                                                *)

\* debit - credit of a strategy, in cents of the model's integers
CostOf(st) == debit(st).n - credit(st).n

\* C19: L.rank("cost", reverse = false).top(n) is a list whose cost values
\* (debit - credit) never decrease from first to last and whose length is
\* min(n, size of L).
C19_RankCostTop ==
    (op = "rank.top" /\ kindArg.key = "cost" /\ ~kindArg.reverse) =>
        /\ \A i \in 1..(Len(result) - 1) : CostOf(result[i]) <= CostOf(result[i + 1])
        /\ Len(result) = (IF kindArg.n < Len(before) THEN kindArg.n ELSE Len(before))

\* three strategies of different cost listed from the dearest to the
\* cheapest, of which the two cheapest were returned, cheapest first
C19_Witness ==
    /\ op = "rank.top"
    /\ kindArg = RankArgs("cost", FALSE, 2)
    /\ Len(before) = 3
    /\ CostOf(before[1]) > CostOf(before[2])
    /\ CostOf(before[2]) > CostOf(before[3])
    /\ result = <<before[3], before[2]>>

\* the value rank orders a strategy by under a key
KeyValue(key, st) ==
    CASE key = "rr" -> rr(st)
      [] key = "gain" -> max_gain(st)
      [] key = "loss" -> max_loss(st)
      [] key = "cost" -> cost(st)

\* C20: rank is a stable sort: for every key among rr, gain, loss, cost and
\* either value of reverse, strategies of equal key value appear in the
\* returned list in the same relative order as in the list rank was called on.
C20_RankStable ==
    (op = "rank" /\ kindArg.key \in RankKeys) =>
        \A i \in 1..Len(before) :
            SelectSeq(result,
                      LAMBDA st : Same(KeyValue(kindArg.key, st),
                                       KeyValue(kindArg.key, before[i])))
              = SelectSeq(before,
                          LAMBDA st : Same(KeyValue(kindArg.key, st),
                                           KeyValue(kindArg.key, before[i])))

\* the key values of s never decrease / never increase from first to last
NonDecreasing(s, key) ==
    \A i \in 1..(Len(s) - 1) : Le(KeyValue(key, s[i]), KeyValue(key, s[i + 1]))

NonIncreasing(s, key) ==
    \A i \in 1..(Len(s) - 1) : Ge(KeyValue(key, s[i]), KeyValue(key, s[i + 1]))

\* C21: rank("loss", reverse) orders the list by max_loss ascending, +infinity
\* last, for both values of reverse; for the keys rr, gain and cost
\* reverse = true gives non-increasing and reverse = false non-decreasing key
\* values.
C21_RankOrder ==
    op = "rank" =>
        /\ kindArg.key = "loss" =>
              /\ NonDecreasing(result, "loss")
              /\ \A i \in 1..(Len(result) - 1) :
                    max_loss(result[i]) = PInf => max_loss(result[i + 1]) = PInf
        /\ kindArg.key \in {"rr", "gain", "cost"} =>
              IF kindArg.reverse
              THEN NonIncreasing(result, kindArg.key)
              ELSE NonDecreasing(result, kindArg.key)

\* rank("loss", reverse = true) on three strategies listed from the largest
\* max_loss (+infinity) to the smallest returned them smallest first
C21_Witness ==
    /\ op = "rank"
    /\ kindArg.key = "loss"
    /\ kindArg.reverse
    /\ Len(before) = 3
    /\ max_loss(before[1]) = PInf
    /\ Gt(max_loss(before[2]), max_loss(before[3]))
    /\ result = <<before[3], before[2], before[1]>>

C23_RankTopNonMutating ==
    /\ before = original
    /\ Len(before) = Len(original)

\* a rank call on a list of three that returned another order than the
\* receiver's, the receiver keeping its own
C23_Witness ==
    /\ op = "rank"
    /\ Len(original) = 3
    /\ Len(result) = 3
    /\ result # original
    /\ before = original

\* C24: top(n) returns the first min(n, size) elements of the receiver in the
\* receiver's order; top(0) and top on an empty list return an empty list,
\* and top(n) with n >= size returns a full copy.
C24_TopPrefix ==
    op = "top" =>
        LET k == IF kindArg.n < Len(before) THEN kindArg.n ELSE Len(before)
        IN /\ Len(result) = k
           /\ \A i \in 1..k : result[i] = before[i]
           /\ kindArg.n = 0 => result = <<>>
           /\ before = <<>> => result = <<>>
           /\ kindArg.n >= Len(before) => result = before

\* top(2) on three different strategies returned the first two
C24_Witness ==
    /\ op = "top"
    /\ kindArg.n = 2
    /\ Len(before) = 3
    /\ before[1] # before[2] /\ before[2] # before[3] /\ before[1] # before[3]
    /\ result = <<before[1], before[2]>>

-----------------------------------------------------------------------------
(* Legs of the returned strategies.                                        *)

\* C30: in a list returned by StrategyFactory::generate every leg meets all
\* present option-level predicates of the ConfigFilter; the legs of a
\* Straddle, Strangle or IronCondor share one expiry; a Straddle is one call
\* and one put of equal strike; a Strangle is one call with strike > spot and
\* one put with strike < spot; every strategy has debit >= 0 and credit >= 0,
\* and the width of an IronCondor is strictly positive.
C30_LegsWellFormed ==
    (op = "generate" /\ outcome = "ok") =>
        \A i \in 1..Len(result) :
            LET st == result[i]
            IN /\ \A l \in 1..Len(st.legs) :
                     /\ Meets(st.legs[l], cfgArg)
                     /\ st.legs[l].expiry = st.legs[1].expiry
               /\ st.kind = "Straddle" =>
                     /\ Len(st.legs) = 2
                     /\ is_call(st.legs[1]) /\ is_put(st.legs[2])
                     /\ st.legs[1].strike = st.legs[2].strike
               /\ st.kind = "Strangle" =>
                     /\ Len(st.legs) = 2
                     /\ is_call(st.legs[1]) /\ is_put(st.legs[2])
                     /\ st.legs[1].strike > spot
                     /\ st.legs[2].strike < spot
               /\ Ge(debit(st), Fin(0))
               /\ Ge(credit(st), Fin(0))
               /\ st.kind = "IronCondor" =>
                     /\ Len(st.legs) = 4
                     /\ Gt(width(st), Fin(0))

\* a generate with a volume floor that dropped records of the universe and
\* returned a single leg, a straddle and a strangle
C30_Witness ==
    /\ op = "generate" /\ outcome = "ok"
    /\ Has(cfgArg.min_volume)
    /\ Len(universe) < Len(before)
    /\ \E i \in 1..Len(result) : result[i].kind = "SingleLeg"
    /\ \E i \in 1..Len(result) : result[i].kind = "Straddle"
    /\ \E i \in 1..Len(result) : result[i].kind = "Strangle"

-----------------------------------------------------------------------------
(* Risk/reward of the generated strategies.                                *)

\* the candidates the generators build in the last generate call, before the
\* range filter
GeneratedCandidates ==
    UNION {{CandidatesOf(kind, Filtered, spot, cfgArg, sortTies)[i] :
               i \in 1..Len(CandidatesOf(kind, Filtered, spot, cfgArg, sortTies))} :
           kind \in KindSet}

TwoLegKinds == {"Straddle", "Strangle"}

\* C29: every generated SingleLeg is an OTM call with max_gain = +inf and
\* rr = +inf, BUY or SELL, and a SELL one has max_loss = -credit <= 0; every
\* LONG Straddle/Strangle has rr = +inf; every SHORT Straddle/Strangle has
\* max_loss = +inf and rr = 0.  So a set rr_range with a finite high bound
\* returns no single leg and no LONG straddle/strangle, and a set rr_range
\* with low > 0 returns no SHORT straddle/strangle.
C29_DegenerateRiskReward ==
    (op = "generate" /\ outcome = "ok") =>
        /\ \A st \in GeneratedCandidates :
              /\ st.kind = "SingleLeg" =>
                    /\ is_call(st.legs[1]) /\ st.legs[1].strike > spot
                    /\ st.action \in {"BUY", "SELL"}
                    /\ max_gain(st) = PInf
                    /\ rr(st) = PInf
                    /\ st.action = "SELL" =>
                          /\ Same(max_loss(st), Sub(Fin(0), credit(st)))
                          /\ Le(max_loss(st), Fin(0))
              /\ (st.kind \in TwoLegKinds /\ st.direction = "LONG") =>
                    rr(st) = PInf
              /\ (st.kind \in TwoLegKinds /\ st.direction = "SHORT") =>
                    /\ max_loss(st) = PInf
                    /\ Same(rr(st), Fin(0))
        /\ (Has(cfgArg.rr_range) /\ Val(cfgArg.rr_range)[2].k = "fin") =>
              \A i \in 1..Len(result) :
                  /\ result[i].kind # "SingleLeg"
                  /\ ~(result[i].kind \in TwoLegKinds /\ result[i].direction = "LONG")
        /\ (Has(cfgArg.rr_range) /\ Gt(Val(cfgArg.rr_range)[1], Fin(0))) =>
              \A i \in 1..Len(result) :
                  ~(result[i].kind \in TwoLegKinds /\ result[i].direction = "SHORT")

\* all four kinds enabled, SHORT, rr_range = [2, +inf] on the six-record
\* chain: single legs, straddles and strangles were generated, the rr range
\* dropped every SHORT straddle and strangle and kept the sold single legs
C29_Witness ==
    /\ op = "generate" /\ outcome = "ok"
    /\ sfArg = Sf(TRUE, TRUE, TRUE, TRUE)
    /\ cfgArg = [WithDirection(NoCfg, "SHORT") EXCEPT !.rr_range = Some(<<Fin(2), PInf>>)]
    /\ \E st \in GeneratedCandidates : st.kind = "Straddle"
    /\ \E st \in GeneratedCandidates : st.kind = "Strangle"
    /\ \E i \in 1..Len(result) : result[i].kind = "SingleLeg" /\ result[i].action = "SELL"
    /\ \A i \in 1..Len(result) : result[i].kind \notin TwoLegKinds

\* the bijections of 1..n
Perms(n) == {p \in [1..n -> 1..n] : \A i, j \in 1..n : p[i] = p[j] => i = j}

\* the metrics a strategy reports
MetricsOf(s) ==
    <<debit(s), credit(s), max_gain(s), max_loss(s), rr(s), net_delta(s),
      net_theta(s), net_vega(s), avg_iv(s)>>

\* C28: for every key and reverse, rank returns a permutation of the
\* receiver: same size, and each returned strategy is the clone of one
\* receiver element with the same kind, the same legs in the same roles, the
\* same action and direction, hence the same metrics; none is null.
C28_RankPermutation ==
    op = "rank" =>
        /\ Len(result) = Len(before)
        /\ \A i \in 1..Len(result) : result[i] # nullptr
        /\ \E p \in Perms(Len(before)) :
              \A i \in 1..Len(result) :
                  /\ result[i].kind = before[p[i]].kind
                  /\ result[i].legs = before[p[i]].legs
                  /\ result[i].action = before[p[i]].action
                  /\ result[i].direction = before[p[i]].direction
                  /\ MetricsOf(result[i]) = MetricsOf(before[p[i]])

\* a rank that reordered an iron condor, a strangle and a single leg
C28_Witness ==
    /\ op = "rank"
    /\ Len(before) = 3
    /\ {before[i].kind : i \in 1..3} = {"IronCondor", "Strangle", "SingleLeg"}
    /\ result # before

-----------------------------------------------------------------------------
(* Order of the candidates.                                                *)

\* the strikes of a candidate's legs in leg order
LegStrikes(st) == [l \in 1..Len(st.legs) |-> st.legs[l].strike]

\* a comes before b in dictionary order (sequences of equal length)
RECURSIVE LexBefore(_, _)
LexBefore(a, b) ==
    /\ a # <<>>
    /\ \/ Head(a) < Head(b)
       \/ (Head(a) = Head(b) /\ LexBefore(Tail(a), Tail(b)))

\* no strike of one expiry and side is listed twice in the filtered universe
NoRepeatedStrike ==
    LET F == Filtered
    IN \A i, j \in 1..Len(F) :
          (/\ i # j
           /\ F[i].expiry = F[j].expiry
           /\ F[i].side = F[j].side) => F[i].strike # F[j].strike

====
